---------------------------- MODULE Spec2Model ----------------------------
(***************************************************************************)
(* A model of KFsort6.py (Kwik Fill store-order sorter): canonicalization, *)
(* store segmentation, item extraction, envelope fit, wobbler-kit grouping *)
(* and the top-level processing run.                                       *)
(*                                                                         *)
(* Strings are sequences of one-character strings, so that the string      *)
(* functions of the program (strip, whitespace collapse, asterisk trim,    *)
(* lower, substring search, join, digit parsing, ordering) are computed    *)
(* and not assumed.                                                        *)
(***************************************************************************)
EXTENDS Integers, Sequences, FiniteSets, TLC

VARIABLES
    canon_in,       \* canon harness: the input string s
    canon_out,      \* canon harness: <<canon(s), canon(canon(s)), ...>>
    \* group_wobbler_kits(stores, min_stores)
    gk_stores,      \* argument stores: sequence of [store_id, store_name, items]
    gk_min,         \* argument min_stores
    gk_pc,          \* "idle", "scan" (loop of line 708), "build" (loop of line 726), "done"
    gk_i,           \* position of the loop that is running
    rep_text,       \* canonical promo -> first-seen original spelling
    combos,         \* OrderedDict as a sequence of [key, store_list] in insertion order
    kits,           \* the kit list (returned once gk_pc = "done")
    idx,            \* next kit label
    kit_by_store_id,\* store_id -> kit_name (returned once gk_pc = "done")
    gk_placed,      \* observation: for each scanned store, the position in combos of the
                    \* entry line 722 appended it to, 0 when line 720 skipped it
    doc,            \* the source document: a sequence of pages (page i of the code is doc[i + 1])
    \* index_stores(doc)
    ix_pc,          \* "idle", "loop" (the loop of line 620), "done"
    ix_i,           \* index of the page the loop is at (0-based, as in the code)
    stores,         \* the StoreRecords (returned once ix_pc = "done")
    current,        \* the open store: NoStore (None) or OpenStore(pages)
    accum,          \* accumulated text of the open store
    meta,           \* metadata of the open store's header page
    \* extract_items_from_pages(doc, pages)
    ex_pc,          \* "idle", "rows" (the loops of lines 674-696), "done"
    ex_pages,       \* argument pages
    ex_p,           \* position in pages of the page the outer loop is at (1-based)
    ex_r,           \* position of the next row of that page (1-based)
    items,          \* the item list (returned once ex_pc = "done")
    last_type,      \* <<>> stands for None
    promo_buf,
    \* the caller of extract_items_from_pages
    ex_stores,      \* the page lists of the stores
    ex_store,       \* the store the running (or last) call is for
    ex_result,      \* store -> the item list its first finished call returned
    ex_prev,        \* the store of the call before the running (or last) one, 0 if none
    ex_again,       \* the running (or last) call is for a store already extracted before
    \* compute_envelope_fit(stores, fit_cfg)
    fit_pc,         \* "idle", "loop" (line 767), "done"
    fit_i,          \* position of the loop
    fit_stores,     \* argument stores; the loop sets fits_envelope on them
    will_fit,       \* fit_cfg["will_fit"]
    fits,           \* returned once fit_pc = "done"
    not_fits,
    \* process_pdf_sorted_with_kits_and_envelopes(input_file, output_file, root)
    pr_pc,          \* "idle", "start", "index", "extract", "gui", "fit", "kits", "save", "end"
    pr_k,           \* position of the loop of line 1005 (1-based)
    msgs,           \* the message boxes shown, in order: "stop", "fatal", "complete"
    saved,          \* out.save has written the output file
    out,            \* the pages of the output document, in order
    raised,         \* observation: the places where an exception has been raised
    no_order_stores,
    stores_with_items,
    box_special,    \* label -> stores
    box_general,
    \* draw_multicolumn_list(out_doc, page, items, y, columns, fontsize, col_gap, leading,
    \*                       header_on_new_pages, bullet)
    mc_pc,          \* "idle", "loop", "done"
    mc_n,           \* len(items); the items are numbered 0 .. mc_n - 1
    mc_columns,
    mc_line_h,      \* line_h, in tenths of a point
    mc_header,      \* header_on_new_pages is given
    mc_y0,          \* the y the call was entered with
    mc_i,
    mc_y,           \* in tenths of a point
    mc_page,        \* the page drawn on: 0 is the page passed in, k the k-th new page
    mc_cells,       \* the insert_text calls so far, in order: item, page, row, column
    \* detect_columns(page) and iter_rows(page, y_min, y_max), as lines 676-679 call them
    rw_pc,          \* "idle", "ready", "detected", "iter", "done"
    rw_page,        \* the page: its size, what search_for finds, its words
    rw_cols,        \* the dict detect_columns returned to the caller
    rw_ymin,        \* in hundredths of a point, as every length of the page
    rw_ymax,
    rw_pending,     \* the rows of iter_rows still to yield, in order
    rw_out,         \* the rows yielded so far
    \* classify_store(accum_text)
    cl_pc,          \* "idle", "call", "done"
    cl_text,        \* accum_text
    cl_out,         \* the dict returned
    \* draw_wrapped_text(out_doc, page, x, y, text, max_width, fontsize=12)
    wr_pc,          \* "idle", "para" (the loop of line 786), "words" (the loop of line 789), "done"
    wr_max,         \* argument max_width, in thousandths of the font size
    wr_paras,       \* the paragraphs still to handle, the current one first
    wr_words,       \* words
    wr_line,        \* line
    wr_y,           \* y, in tenths of a point
    wr_page,        \* the number of pages draw_wrapped_text has added
    wr_drawn,       \* the calls of page.insert_text so far: [text, page, y]
    wr_popped       \* observation: the words taken off the list by words.pop(0), in order

canonVars == <<canon_in, canon_out>>
itemVars == <<ex_pc, ex_pages, ex_p, ex_r, items, last_type, promo_buf,
              ex_stores, ex_store, ex_result, ex_prev, ex_again>>
fitVars == <<fit_pc, fit_i, fit_stores, will_fit, fits, not_fits>>
columnVars == <<mc_pc, mc_n, mc_columns, mc_line_h, mc_header, mc_y0, mc_i, mc_y, mc_page, mc_cells>>
classVars == <<cl_pc, cl_text, cl_out>>
wrapVars == <<wr_pc, wr_max, wr_paras, wr_words, wr_line, wr_y, wr_page, wr_drawn, wr_popped>>
rowVars == <<rw_pc, rw_page, rw_cols, rw_ymin, rw_ymax, rw_pending, rw_out>>
procVars == <<pr_pc, pr_k, msgs, saved, out, raised, no_order_stores, stores_with_items,
              box_special, box_general>>
indexVars == <<ix_pc, ix_i, stores, current, accum, meta>>
kitVars == <<gk_stores, gk_min, gk_pc, gk_i, rep_text, combos, kits, idx, kit_by_store_id,
             gk_placed>>

-----------------------------------------------------------------------------
(* Bounds of the model *)

MaxStrLen == 4          \* longest canon input
MaxPages == 4           \* most pages of a document handed to index_stores
MaxRows == 3            \* most rows of a document handed to extract_items_from_pages
MaxFitStores == 2       \* most stores handed to compute_envelope_fit
MaxTextLen == 4         \* longest text handed to draw_wrapped_text
MaxFragments == 3       \* most fragments of an accumulated text handed to classify_store
MaxWords == 3           \* most words of a page handed to iter_rows
MaxListItems == 9       \* most items of a multi-column list
MaxProcPages == 3       \* most pages of a document handed to the whole run
MaxCanonApps == 2       \* canon is applied at most this many times in a row
MaxKitStores == 3       \* most stores handed to group_wobbler_kits (varied orders)
MaxMinStores == 2       \* largest min_stores tried with the varied orders
ManyStores == 11        \* most stores handed to group_wobbler_kits at the default threshold

-----------------------------------------------------------------------------
(* Characters and strings *)

Range(s) == {s[k] : k \in 1..Len(s)}

UpperChars == <<"A","B","C","D","E","F","G","H","I","J","K","L","M",
                "N","O","P","Q","R","S","T","U","V","W","X","Y","Z">>
LowerChars == <<"a","b","c","d","e","f","g","h","i","j","k","l","m",
                "n","o","p","q","r","s","t","u","v","w","x","y","z">>

\* the characters of the model in code-point order (Python compares str by code point)
CharOrder == <<"\t", "\n", " ", "*", "+", ",", "-", ".", "/", "0", "1", "2", "3", "4", "5", "6", "7",
               "8", "9", ":", ";">> \o UpperChars \o <<"_">> \o LowerChars \o <<"|", "sup2">>

AllChars == Range(CharOrder)

\* ord(c), as the position in CharOrder
OrdOf == [c \in AllChars |-> CHOOSE k \in 1..Len(CharOrder) : CharOrder[k] = c]

Ord(c) == OrdOf[c]

IsSpace(c) == c \in {" ", "\t", "\n"}

IsUpper(c) == c \in Range(UpperChars)

IsLetter(c) == c \in Range(UpperChars) \cup Range(LowerChars)

LowerOf == [c \in AllChars |->
               IF c \in Range(UpperChars)
               THEN LowerChars[CHOOSE k \in 1..26 : UpperChars[k] = c]
               ELSE c]

\* str.lower() on one character
LowerChar(c) == LowerOf[c]

\* str.lower()
Lower(s) == [k \in 1..Len(s) |-> LowerChar(s[k])]

\* s[a:b] with 1-based inclusive ends, empty when a > b
Slice(s, a, b) == IF a > b THEN <<>> ELSE SubSeq(s, a, b)

\* s.lstrip(): drop leading whitespace
RECURSIVE LStrip(_)
LStrip(s) == IF s # <<>> /\ IsSpace(Head(s)) THEN LStrip(Tail(s)) ELSE s

\* s.rstrip(): drop trailing whitespace
RECURSIVE RStrip(_)
RStrip(s) == IF s # <<>> /\ IsSpace(s[Len(s)]) THEN RStrip(SubSeq(s, 1, Len(s) - 1)) ELSE s

\* str.strip(): drop leading and trailing whitespace
Strip(s) == RStrip(LStrip(s))

\* re.sub(r'\s+', ' ', s): every maximal whitespace run becomes one space
RECURSIVE CollapseSpaces(_)
CollapseSpaces(s) ==
    IF s = <<>> THEN <<>>
    ELSE IF IsSpace(Head(s))
         THEN IF Len(s) > 1 /\ IsSpace(s[2])
              THEN CollapseSpaces(Tail(s))
              ELSE <<" ">> \o CollapseSpaces(Tail(s))
         ELSE <<Head(s)>> \o CollapseSpaces(Tail(s))

RECURSIVE DropLeadingAsterisks(_)
DropLeadingAsterisks(s) ==
    IF s # <<>> /\ Head(s) = "*" THEN DropLeadingAsterisks(Tail(s)) ELSE s

RECURSIVE DropTrailingAsterisks(_)
DropTrailingAsterisks(s) ==
    IF s # <<>> /\ s[Len(s)] = "*" THEN DropTrailingAsterisks(SubSeq(s, 1, Len(s) - 1)) ELSE s

\* re.sub(r'^\*+|\*+$', '', s): drop the leading and the trailing run of asterisks
TrimAsterisks(s) == DropTrailingAsterisks(DropLeadingAsterisks(s))

canon(s) ==
    IF s = <<>> THEN <<>>
    ELSE Lower(TrimAsterisks(CollapseSpaces(Strip(s))))

-----------------------------------------------------------------------------
(* Ordering and small data helpers *)

\* a < b for str (lexicographic by code point, a proper prefix is smaller)
StrLess(a, b) ==
    \E k \in 1..Len(b) :
        /\ k <= Len(a) + 1
        /\ \A j \in 1..(k - 1) : a[j] = b[j]
        /\ (k = Len(a) + 1 \/ Ord(a[k]) < Ord(b[k]))

\* a < b for tuples (canonical promo, qty)
PairLess(a, b) == StrLess(a[1], b[1]) \/ (a[1] = b[1] /\ a[2] < b[2])

\* sorted(wob): stable insertion sort of (str, int) tuples
RECURSIVE InsertPair(_, _)
InsertPair(x, s) ==
    IF s = <<>> THEN <<x>>
    ELSE IF PairLess(x, Head(s)) THEN <<x>> \o s
         ELSE <<Head(s)>> \o InsertPair(x, Tail(s))

RECURSIVE SortPairs(_)
SortPairs(s) == IF s = <<>> THEN <<>> ELSE InsertPair(s[Len(s)], SortPairs(SubSeq(s, 1, Len(s) - 1)))

\* sorted(names): insertion sort of str
RECURSIVE InsertStr(_, _)
InsertStr(x, s) ==
    IF s = <<>> THEN <<x>>
    ELSE IF StrLess(x, Head(s)) THEN <<x>> \o s
         ELSE <<Head(s)>> \o InsertStr(x, Tail(s))

RECURSIVE SortStrs(_)
SortStrs(s) == IF s = <<>> THEN <<>> ELSE InsertStr(s[Len(s)], SortStrs(SubSeq(s, 1, Len(s) - 1)))

DigitChars == <<"0", "1", "2", "3", "4", "5", "6", "7", "8", "9">>

\* f'{n}' for an int n >= 0
RECURSIVE DecStr(_)
DecStr(n) == IF n < 10 THEN <<DigitChars[n + 1]>>
             ELSE DecStr(n \div 10) \o <<DigitChars[(n % 10) + 1]>>

-----------------------------------------------------------------------------
(* Program constants (lines 71-85) *)

S_SHELF_WOBBLER == <<"S","h","e","l","f"," ","W","o","b","b","l","e","r">>

TYPE_SHELF_WOBBLER_CANON == canon(S_SHELF_WOBBLER)

PREDETERMINED_WOBBLERS_CANON == {
    <<"s","h","e","l","f"," ","w","o","b","b","l","e","r"," ","k","i","t",";"," ",
      "a","l","c","o","h","o","l"," ","v","e","r","s","i","o","n">>,
    <<"c","a","n","d","y",";"," ","c","o","u","n","t","e","r"," ","k","i","t">>,
    <<"s","h","e","l","f"," ","w","o","b","b","l","e","r"," ","k","i","t",";"," ",
      "n","o","n","-","a","l","c","o","h","o","l"," ","v","e","r","s","i","o","n">>,
    <<"c","a","n","d","y",";"," ","s","h","i","p","p","e","r"," ","k","i","t">> }

KIT_COUNTER == <<"*","C","A","N","D","Y",";"," ","C","O","U","N","T","E","R"," ","K","I","T","*">>

is_predetermined_wobbler(promo) == canon(promo) \in PREDETERMINED_WOBBLERS_CANON

\* the default of min_stores, also the value process_pdf_sorted_with_kits_and_envelopes passes
DEFAULT_MIN_STORES == 10

-----------------------------------------------------------------------------
(* group_wobbler_kits (lines 703-749) *)

\* a plausible slip at lines 713-714: predetermined wobbler promos are not skipped
IsKitItem_any_wobbler(it) == canon(it.type) = TYPE_SHELF_WOBBLER_CANON

\* lines 711-718: does the item contribute a (canonical promo, qty) pair?
IsKitItem(it) ==
    /\ canon(it.type) = TYPE_SHELF_WOBBLER_CANON
    /\ ~is_predetermined_wobbler(it.promo)

\* lines 710-718: wob, the pairs of a store in item order
RECURSIVE WobPairs(_)
WobPairs(its) ==
    IF its = <<>> THEN <<>>
    ELSE IF IsKitItem(Head(its))
         THEN <<<<canon(Head(its).promo), Head(its).qty>>>> \o WobPairs(Tail(its))
         ELSE WobPairs(Tail(its))

\* line 717 over the items of a store: rep_text.setdefault(cp, it['promo'])
RECURSIVE RepTextAfter(_, _)
RepTextAfter(rep, its) ==
    IF its = <<>> THEN rep
    ELSE LET it == Head(its)
             cp == canon(it.promo)
         IN  IF IsKitItem(it) /\ cp \notin DOMAIN rep
             THEN RepTextAfter(rep @@ (cp :> it.promo), Tail(its))
             ELSE RepTextAfter(rep, Tail(its))

\* a plausible slip at line 719: only stores with no pair at all are skipped
TooFewPairs_only_empty(wob) == Len(wob) < 1

\* line 719: if len(wob) <= 1: continue
TooFewPairs(wob) == Len(wob) <= 1

\* a plausible slip at line 721: the pairs are not sorted
Signature_unsorted(wob) == wob

\* line 721: key = tuple(sorted(wob))
Signature(wob) == SortPairs(wob)

\* a plausible slip at line 727: the comparison is <= instead of <
BelowThreshold_off_by_one(store_list, min_stores) == Len(store_list) <= min_stores

\* line 727: if len(store_list) < min_stores: continue
BelowThreshold(store_list, min_stores) == Len(store_list) < min_stores

\* position of key in combos, 0 when absent
ComboIndex(cs, key) ==
    IF \E k \in 1..Len(cs) : cs[k].key = key
    THEN CHOOSE k \in 1..Len(cs) : cs[k].key = key
    ELSE 0

\* line 722: combos.setdefault(key, []).append((store_id, store_name))
CombosAppend(cs, key, entry) ==
    LET k == ComboIndex(cs, key)
    IN  IF k = 0 THEN Append(cs, [key |-> key, store_list |-> <<entry>>])
        ELSE [cs EXCEPT ![k].store_list = Append(@, entry)]

\* lines 729-738: the kit of one retained combos entry
MakeKit(entry, label, rep) ==
    [ kit_name    |-> DecStr(label),
      items       |-> [k \in 1..Len(entry.key) |->
                          [promo |-> rep[entry.key[k][1]], qty |-> entry.key[k][2]]],
      stores      |-> SortStrs([k \in 1..Len(entry.store_list) |-> entry.store_list[k][2]]),
      store_ids   |-> [k \in 1..Len(entry.store_list) |-> entry.store_list[k][1]],
      store_count |-> Len(entry.store_list) ]

\* a plausible slip at line 740: kits of equal store_count come out in reverse order
RECURSIVE InsertKit_ties_reversed(_, _)
InsertKit_ties_reversed(x, s) ==
    IF s = <<>> THEN <<x>>
    ELSE IF x.store_count > Head(s).store_count THEN <<x>> \o s
         ELSE <<Head(s)>> \o InsertKit_ties_reversed(x, Tail(s))

\* line 740: kits.sort(key=store_count, reverse=True), a stable sort: x, which
\* precedes every kit of s in the list, stays ahead of those with its store_count
RECURSIVE InsertKit(_, _)
InsertKit(x, s) ==
    IF s = <<>> THEN <<x>>
    ELSE IF x.store_count >= Head(s).store_count THEN <<x>> \o s
         ELSE <<Head(s)>> \o InsertKit(x, Tail(s))

RECURSIVE SortKits(_)
SortKits(s) == IF s = <<>> THEN <<>> ELSE InsertKit(Head(s), SortKits(Tail(s)))

\* lines 741-744: later assignments overwrite earlier ones
RECURSIVE AssignIds(_, _, _)
AssignIds(m, ids, name) ==
    IF ids = <<>> THEN m
    ELSE AssignIds((Head(ids) :> name) @@ m, Tail(ids), name)

RECURSIVE KitLookup(_, _)
KitLookup(m, ks) ==
    IF ks = <<>> THEN m
    ELSE KitLookup(AssignIds(m, Head(ks).store_ids, Head(ks).kit_name), Tail(ks))

EmptyMap == [x \in {} |-> x]

KitsIdle ==
    /\ gk_stores = <<>> /\ gk_min = 0 /\ gk_pc = "idle" /\ gk_i = 0
    /\ rep_text = EmptyMap /\ combos = <<>> /\ kits = <<>> /\ idx = 0
    /\ kit_by_store_id = EmptyMap /\ gk_placed = <<>>

\* lines 704-707: entry of group_wobbler_kits(stores, min_stores)
KitsEntry(the_stores, min_stores) ==
    /\ gk_stores = the_stores /\ gk_min = min_stores /\ gk_pc = "scan" /\ gk_i = 1
    /\ rep_text = EmptyMap /\ combos = <<>> /\ kits = <<>> /\ idx = 1
    /\ kit_by_store_id = EmptyMap /\ gk_placed = <<>>

\* lines 708-722: one pass of "for s in stores"
GroupStore ==
    /\ gk_pc = "scan"
    /\ gk_i <= Len(gk_stores)
    /\ LET s   == gk_stores[gk_i]
           wob == WobPairs(s.items)
           key == Signature(wob)
           cs  == CombosAppend(combos, key, <<s.store_id, s.store_name>>)
       IN  /\ rep_text' = RepTextAfter(rep_text, s.items)
           /\ IF TooFewPairs(wob)
              THEN /\ combos' = combos
                   /\ gk_placed' = Append(gk_placed, 0)
              ELSE /\ combos' = cs
                   /\ gk_placed' = Append(gk_placed, ComboIndex(cs, key))
    /\ gk_i' = gk_i + 1
    /\ UNCHANGED <<gk_stores, gk_min, gk_pc, kits, idx, kit_by_store_id>>
    /\ UNCHANGED <<doc, canonVars, indexVars, itemVars, fitVars, procVars, columnVars, rowVars, classVars, wrapVars>>

\* lines 724-725: the first loop is over
StartBuild ==
    /\ gk_pc = "scan"
    /\ gk_i > Len(gk_stores)
    /\ gk_pc' = "build"
    /\ gk_i' = 1
    /\ UNCHANGED <<gk_stores, gk_min, rep_text, combos, kits, idx, kit_by_store_id, gk_placed>>
    /\ UNCHANGED <<doc, canonVars, indexVars, itemVars, fitVars, procVars, columnVars, rowVars, classVars, wrapVars>>

\* lines 726-739: one pass of "for key, store_list in combos.items()"
BuildKit ==
    /\ gk_pc = "build"
    /\ gk_i <= Len(combos)
    /\ IF BelowThreshold(combos[gk_i].store_list, gk_min)
       THEN UNCHANGED <<kits, idx>>
       ELSE /\ kits' = Append(kits, MakeKit(combos[gk_i], idx, rep_text))
            /\ idx' = idx + 1
    /\ gk_i' = gk_i + 1
    /\ UNCHANGED <<gk_stores, gk_min, gk_pc, rep_text, combos, kit_by_store_id, gk_placed>>
    /\ UNCHANGED <<doc, canonVars, indexVars, itemVars, fitVars, procVars, columnVars, rowVars, classVars, wrapVars>>

\* lines 740-746: sort, build the lookup, return
FinishKits ==
    /\ gk_pc = "build"
    /\ gk_i > Len(combos)
    /\ kits' = SortKits(kits)
    /\ kit_by_store_id' = KitLookup(EmptyMap, SortKits(kits))
    /\ gk_pc' = "done"
    /\ UNCHANGED <<gk_stores, gk_min, gk_i, rep_text, combos, idx, gk_placed>>
    /\ UNCHANGED <<doc, canonVars, indexVars, itemVars, fitVars, procVars, columnVars, rowVars, classVars, wrapVars>>

-----------------------------------------------------------------------------
(* Inputs of group_wobbler_kits *)

Str_Widget_Promo == <<"W","i","d","g","e","t"," ","P","r","o","m","o">>
Str_Promo_A      == <<"P","r","o","m","o"," ","A">>
Str_PROMO_A_star == <<"*","P","R","O","M","O"," "," ","A","*">>
Str_Promo_B      == <<"P","r","o","m","o"," ","B">>
Str_SHELF_star   == <<"*","S","H","E","L","F"," ","W","O","B","B","L","E","R","*">>
Str_Banner_Sign  == <<"B","a","n","n","e","r"," ","S","i","g","n">>

Item(t, p, q) == [type |-> t, promo |-> p, qty |-> q]

\* the item lists stores are drawn from
OrderWidget == <<Item(S_SHELF_WOBBLER, Str_Widget_Promo, 5)>>
OrderAB     == <<Item(S_SHELF_WOBBLER, Str_Promo_A, 1), Item(S_SHELF_WOBBLER, Str_Promo_B, 2)>>
OrderBA     == <<Item(S_SHELF_WOBBLER, Str_Promo_B, 2), Item(Str_SHELF_star, Str_PROMO_A_star, 1)>>
OrderAB1    == <<Item(S_SHELF_WOBBLER, Str_Promo_A, 1), Item(S_SHELF_WOBBLER, Str_Promo_B, 1)>>
OrderAKit   == <<Item(S_SHELF_WOBBLER, Str_Promo_A, 1), Item(S_SHELF_WOBBLER, KIT_COUNTER, 1)>>
OrderBanAB  == <<Item(Str_Banner_Sign, Str_Promo_A, 1), Item(S_SHELF_WOBBLER, Str_Promo_B, 2),
                 Item(S_SHELF_WOBBLER, Str_Promo_A, 1)>>
OrderAA     == <<Item(S_SHELF_WOBBLER, Str_Promo_A, 1), Item(S_SHELF_WOBBLER, Str_Promo_A, 1)>>

Orders == {OrderWidget, OrderAB, OrderBA, OrderAB1, OrderAKit, OrderBanAB, OrderAA}

Str_Class10 == <<"1", "0">>

\* "Store: <letter><4 digits>" names; store k is named after its position
StoreName(k) == <<UpperChars[k], "1", "2", "3", "4">>

\* line 635: f"{store_name}|{store_cls}"
StoreId(name, cls) == name \o <<"|">> \o cls

KitStore(name, its) ==
    [store_id |-> StoreId(name, Str_Class10), store_name |-> name, items |-> its]

\* stores with varied orders; the last store may repeat the name (and class) of the
\* first one
InitKits ==
    /\ \E n \in 0..MaxKitStores :
       \E order \in [1..n -> Orders] :
       \E dup \in BOOLEAN :
       \E m \in 1..MaxMinStores :
          KitsEntry([k \in 1..n |->
                        KitStore(IF dup /\ k = n THEN StoreName(1) ELSE StoreName(k), order[k])], m)

\* many stores, distinct names, two orders that differ in one qty, the default threshold
InitKitsMany ==
    /\ \E n \in (DEFAULT_MIN_STORES - 1)..ManyStores :
       \E order \in [1..n -> {OrderAB, OrderAB1}] :
          KitsEntry([k \in 1..n |-> KitStore(StoreName(k), order[k])], DEFAULT_MIN_STORES)

NextKits == GroupStore \/ StartBuild \/ BuildKit \/ FinishKits

-----------------------------------------------------------------------------
(* Substrings, lines *)

\* needle == hay[p : p + len(needle)] (p is 1-based)
MatchAt(hay, p, needle) ==
    /\ p + Len(needle) - 1 <= Len(hay)
    /\ \A k \in 1..Len(needle) : hay[p + k - 1] = needle[k]

\* needle in hay
Contains(hay, needle) == \E p \in 1..(Len(hay) + 1) : MatchAt(hay, p, needle)

\* hay.split(sep)[-1]: what follows the last occurrence of sep (sep occurs in hay)
AfterLast(hay, sep) ==
    LET at == {p \in 1..Len(hay) : MatchAt(hay, p, sep)}
        last == CHOOSE p \in at : \A q \in at : q <= p
    IN  Slice(hay, last + Len(sep), Len(hay))

\* text.splitlines()
RECURSIVE SplitLinesFrom(_, _)
SplitLinesFrom(s, cur) ==
    IF s = <<>> THEN (IF cur = <<>> THEN <<>> ELSE <<cur>>)
    ELSE IF Head(s) = "\n" THEN <<cur>> \o SplitLinesFrom(Tail(s), <<>>)
         ELSE SplitLinesFrom(Tail(s), Append(cur, Head(s)))

SplitLines(s) == SplitLinesFrom(s, <<>>)

\* the text with every whitespace character removed
RemoveSpaces(s) == SelectSeq(s, LAMBDA c : ~IsSpace(c))

IsDecimalChar(c) == c \in Range(DigitChars)

-----------------------------------------------------------------------------
(* Header / classification (lines 87-101, 393-449) *)

Str_Store_colon == <<"S","t","o","r","e",":">>
Str_Area_colon  == <<"A","r","e","a",":">>
Str_Class_colon == <<"C","l","a","s","s",":">>
Str_Sign_Type   == <<"S","i","g","n"," ","T","y","p","e">>

\* HEADER_STORE_RE = r'Store:\s?[A-Z]\d{4}' matches at p
HeaderReAt(text, p) ==
    /\ MatchAt(text, p, Str_Store_colon)
    /\ \E q \in {p + 6, p + 7} :
        /\ q = p + 7 => (p + 6 <= Len(text) /\ IsSpace(text[p + 6]))
        /\ q + 4 <= Len(text)
        /\ IsUpper(text[q])
        /\ \A k \in 1..4 : IsDecimalChar(text[q + k])

is_header_page(text) == \E p \in 1..Len(text) : HeaderReAt(text, p)

IsWordChar(c) == IsLetter(c) \/ IsDecimalChar(c) \/ c = "_"

\* the alternatives of r'\b(NY|PA|OH|New York|Pennsylvania|Ohio)\b' and what map_ makes of them
LocTokens == << <<"N","Y">>, <<"P","A">>, <<"O","H">>, <<"N","e","w"," ","Y","o","r","k">>,
                <<"P","e","n","n","s","y","l","v","a","n","i","a">>, <<"O","h","i","o">> >>
LocAbbrev == << <<"N","Y">>, <<"P","A">>, <<"O","H">>, <<"N","Y">>, <<"P","A">>, <<"O","H">> >>

\* alternative k matches at p, case-insensitively and between word boundaries
LocMatchAt(line, p, k) ==
    LET tok == LocTokens[k]
        e   == p + Len(tok) - 1
    IN  /\ e <= Len(line)
        /\ Lower(SubSeq(line, p, e)) = Lower(tok)
        /\ (p = 1 \/ ~IsWordChar(line[p - 1]))
        /\ (e = Len(line) \/ ~IsWordChar(line[e + 1]))

\* lines 409-413: the location of a line, empty when the pattern is not found
LineLocation(line) ==
    LET hits == {p \in 1..Len(line) : \E k \in 1..Len(LocTokens) : LocMatchAt(line, p, k)}
    IN  IF hits = {} THEN <<>>
        ELSE LET p == CHOOSE q \in hits : \A r \in hits : q <= r
                 k == CHOOSE j \in 1..Len(LocTokens) :
                          /\ LocMatchAt(line, p, j)
                          /\ \A i \in 1..(j - 1) : ~LocMatchAt(line, p, i)
             IN  LocAbbrev[k]

Put(m, k, v) == (k :> v) @@ m

\* meta.get(k, default)
Get(m, k, default) == IF k \in DOMAIN m THEN m[k] ELSE default

\* lines 399-413 over the remaining lines
RECURSIVE StoreInfoFrom(_, _)
StoreInfoFrom(lines, info) ==
    IF lines = <<>> THEN info
    ELSE LET line == Head(lines) IN
         IF Contains(line, Str_Sign_Type) THEN info
         ELSE IF Contains(line, Str_Store_colon)
              THEN StoreInfoFrom(Tail(lines), Put(info, "store", Strip(AfterLast(line, Str_Store_colon))))
         ELSE IF Contains(line, Str_Area_colon)
              THEN StoreInfoFrom(Tail(lines), Put(info, "area", Strip(AfterLast(line, Str_Area_colon))))
         ELSE IF Contains(line, Str_Class_colon)
              THEN StoreInfoFrom(Tail(lines), Put(info, "class", Strip(AfterLast(line, Str_Class_colon))))
         ELSE IF LineLocation(line) # <<>> /\ "location" \notin DOMAIN info
              THEN StoreInfoFrom(Tail(lines), Put(info, "location", LineLocation(line)))
         ELSE StoreInfoFrom(Tail(lines), info)

extract_store_info(text) == StoreInfoFrom(SplitLines(text), EmptyMap)

KIT_SHIPPER == <<"*","C","A","N","D","Y",";"," ","S","H","I","P","P","E","R"," ","K","I","T","*">>
KIT_ALC     == <<"*","S","h","e","l","f"," ","W","o","b","b","l","e","r"," ","K","i","t",";"," ",
                 "A","l","c","o","h","o","l"," ","V","e","r","s","i","o","n","*">>
KIT_NONALC  == <<"*","S","h","e","l","f"," ","W","o","b","b","l","e","r"," ","K","i","t",";"," ",
                 "N","o","n","-","A","l","c","o","h","o","l"," ","V","e","r","s","i","o","n","*">>

\* lines 418-424 followed by "KIT in t": each pattern is the marker with \s* between all
\* of its characters, matched ignoring case, and is replaced by the marker itself; so the
\* marker is in the cleaned text iff the text, whitespace removed and case folded,
\* holds the marker, whitespace removed and case folded
HasMarker(text, marker) ==
    Contains(Lower(RemoveSpaces(text)), Lower(RemoveSpaces(marker)))

Str_Alcohol     == <<"A","l","c","o","h","o","l">>
Str_Non_Alcohol == <<"N","o","n","-","A","l","c","o","h","o","l">>
Str_Counter_Shipper == <<" ","C","o","u","n","t","e","r"," ","+"," ","S","h","i","p","p","e","r">>
Str_Counter     == <<" ","C","o","u","n","t","e","r">>
Str_Shipper     == <<" ","S","h","i","p","p","e","r">>
Str_No_Counter_Shipper == <<" ","N","o"," ","C","o","u","n","t","e","r","/","S","h","i","p","p","e","r">>

\* a plausible slip at line 444: the store_type is returned without strip()
classify_store_unstripped(accum_text) ==
    LET is_counter    == HasMarker(accum_text, KIT_COUNTER)
        is_shipper    == HasMarker(accum_text, KIT_SHIPPER)
    IN  IF is_counter /\ is_shipper THEN Str_Counter_Shipper
        ELSE IF is_counter THEN Str_Counter
        ELSE IF is_shipper THEN Str_Shipper
        ELSE Str_No_Counter_Shipper

\* lines 426-449: the store_type of classify_store(accum_text)
classify_store(accum_text) ==
    LET is_counter    == HasMarker(accum_text, KIT_COUNTER)
        is_shipper    == HasMarker(accum_text, KIT_SHIPPER)
        is_alcohol    == HasMarker(accum_text, KIT_ALC)
        is_nonalcohol == HasMarker(accum_text, KIT_NONALC) /\ ~is_alcohol
        alc == IF is_alcohol THEN Str_Alcohol
               ELSE IF is_nonalcohol THEN Str_Non_Alcohol ELSE <<>>
        store_type == IF is_counter /\ is_shipper THEN alc \o Str_Counter_Shipper
                      ELSE IF is_counter THEN alc \o Str_Counter
                      ELSE IF is_shipper THEN alc \o Str_Shipper
                      ELSE alc \o Str_No_Counter_Shipper
    IN  Strip(store_type)

\* lines 428-431 and 445-448: the four flags of the returned dict
classify_flags(accum_text) ==
    LET is_alcohol == HasMarker(accum_text, KIT_ALC) IN
    [is_counter     |-> HasMarker(accum_text, KIT_COUNTER),
     is_shipper     |-> HasMarker(accum_text, KIT_SHIPPER),
     is_alcohol     |-> is_alcohol,
     is_non_alcohol |-> HasMarker(accum_text, KIT_NONALC) /\ ~is_alcohol]

NoClass ==
    [store_type |-> <<>>, is_counter |-> FALSE, is_shipper |-> FALSE,
     is_alcohol |-> FALSE, is_non_alcohol |-> FALSE]

ClassIdle == cl_pc = "idle" /\ cl_text = <<>> /\ cl_out = NoClass

\* lines 426-449: classify_store(accum_text) returns its dict
Classify ==
    /\ cl_pc = "call"
    /\ cl_out' = [store_type |-> classify_store(cl_text)] @@ classify_flags(cl_text)
    /\ cl_pc' = "done"
    /\ UNCHANGED cl_text
    /\ UNCHANGED <<doc, canonVars, kitVars, indexVars, itemVars, fitVars, procVars, columnVars, rowVars, wrapVars>>

\* the pieces accumulated texts are made of: the four markers as the code spells them,
\* markers in other case and spacing, a marker without its closing asterisk, a plain word
Frag_counter_spaced == <<"*"," ","c","a","n","d","y",";","c","o","u","n","t","e","r","\n","k","i","t"," ","*">>
Frag_nonalc_lower ==
    <<"*","s","h","e","l","f","w","o","b","b","l","e","r","k","i","t",";","n","o","n","-",
      "a","l","c","o","h","o","l","v","e","r","s","i","o","n","*">>
Frag_shipper_open == <<"*","C","A","N","D","Y",";"," ","S","H","I","P","P","E","R"," ","K","I","T">>

Fragments ==
    {KIT_COUNTER, KIT_SHIPPER, KIT_ALC, KIT_NONALC, Frag_counter_spaced, Frag_nonalc_lower,
     Frag_shipper_open, Str_Alcohol}

RECURSIVE ConcatAll(_)
ConcatAll(fs) == IF fs = <<>> THEN <<>> ELSE Head(fs) \o <<" ">> \o ConcatAll(Tail(fs))

InitClassify ==
    /\ \E n \in 0..MaxFragments : \E fs \in [1..n -> Fragments] : cl_text = ConcatAll(fs)
    /\ cl_pc = "call"
    /\ cl_out = NoClass

NextClassify == Classify

-----------------------------------------------------------------------------
(* index_stores (lines 613-667) *)

\* current = None
NoStore == [open |-> FALSE, pages |-> <<>>]

\* current = {'pages': pages}
OpenStore(pages) == [open |-> TRUE, pages |-> pages]

Str_UNKNOWN_ == <<"U","N","K","N","O","W","N","_">>
Str_UNKNOWN_END == <<"U","N","K","N","O","W","N","_","E","N","D">>

\* lines 631-642 and 652-663: the StoreRecord of the open store
StoreRecord(m, text, pages, unknown_name) ==
    LET store_name == Get(m, "store", unknown_name)
        store_cls  == Get(m, "class", <<>>)
    IN  [ store_id   |-> StoreId(store_name, store_cls),
          store_name |-> store_name,
          store_type |-> classify_store(text),
          location   |-> Get(m, "location", <<>>),
          class      |-> store_cls,
          pages      |-> pages,
          meta       |-> m ]

IndexIdle ==
    /\ ix_pc = "idle" /\ ix_i = 0 /\ stores = <<>> /\ current = NoStore
    /\ accum = <<>> /\ meta = EmptyMap

\* lines 614-619: entry of index_stores(doc)
IndexEntry ==
    /\ ix_pc = "loop" /\ ix_i = 0 /\ stores = <<>> /\ current = NoStore
    /\ accum = <<>> /\ meta = EmptyMap

\* a plausible slip at line 644: the header page itself is left out of the page list
HeaderPages_empty(i) == <<>>

\* line 644: current = {'pages': [i]}
HeaderPages(i) == <<i>>

\* a plausible slip at line 627: blank pages are not skipped
IsBlankText_never(text) == FALSE

\* line 627: if not text.strip()
IsBlankText(text) == Strip(text) = <<>>

\* a plausible slip at lines 623-626: the failure is not caught as a failure and the
\* page goes on with whatever text there is
TextRaises_never(page) == FALSE

\* lines 623-626: page.get_text('text') raises
TextRaises(page) == page.text_raises

\* lines 620-649: one pass of "for i, page in enumerate(doc)"
IndexPage ==
    /\ ix_pc = "loop"
    /\ ix_i < Len(doc)
    /\ LET page == doc[ix_i + 1]
           text == page.text
       IN  IF ~page.loads
           THEN \* the iteration itself raises: caught at line 664, the open store is dropped
                /\ ix_pc' = "done"
                /\ UNCHANGED <<ix_i, stores, current, accum, meta>>
           ELSE /\ ix_pc' = ix_pc
                /\ ix_i' = ix_i + 1
                /\ IF TextRaises(page)
                   THEN UNCHANGED <<stores, current, accum, meta>>
                   ELSE IF IsBlankText(text)
                   THEN UNCHANGED <<stores, current, accum, meta>>
                   ELSE IF is_header_page(text)
                   THEN /\ stores' = IF current.open
                                     THEN Append(stores,
                                                 StoreRecord(meta, accum, current.pages,
                                                             Str_UNKNOWN_ \o DecStr(ix_i)))
                                     ELSE stores
                        /\ meta' = extract_store_info(text)
                        /\ current' = OpenStore(HeaderPages(ix_i))
                        /\ accum' = text \o <<" ">>
                   ELSE /\ accum' = accum \o text \o <<" ">>
                        /\ current' = IF current.open
                                      THEN OpenStore(Append(current.pages, ix_i))
                                      ELSE current
                        /\ UNCHANGED <<stores, meta>>
    /\ UNCHANGED <<doc, canonVars, kitVars, itemVars, fitVars, procVars, columnVars, rowVars, classVars, wrapVars>>

\* lines 651-667: the loop is over; close the open store and return
FinishIndex ==
    /\ ix_pc = "loop"
    /\ ix_i = Len(doc)
    /\ stores' = IF current.open
                 THEN Append(stores, StoreRecord(meta, accum, current.pages, Str_UNKNOWN_END))
                 ELSE stores
    /\ ix_pc' = "done"
    /\ UNCHANGED <<ix_i, current, accum, meta>>
    /\ UNCHANGED <<doc, canonVars, kitVars, itemVars, fitVars, procVars, columnVars, rowVars, classVars, wrapVars>>

-----------------------------------------------------------------------------
(* Documents handed to index_stores *)

\* a page: does iterating to it succeed (loads), does get_text('text') raise on it
\* (text_raises), its plain text, and the rows iter_rows yields for it
Page(text) == [loads |-> TRUE, text_raises |-> FALSE, text |-> text, rows |-> <<>>]

Text_HeaderA == <<"S","t","o","r","e",":"," ","A","1","2","3","4","\n",
                  "C","l","a","s","s",":"," ","1","0","\n","E","r","i","e",","," ","P","A","\n",
                  "S","i","g","n"," ","T","y","p","e">>
Text_HeaderB == <<"S","t","o","r","e",":","B","5","6","7","8","\n",
                  "*","C","A","N","D","Y",";"," ","C","O","U","N","T","E","R"," ","K","I","T","*">>
\* the header line follows the column heading: extract_store_info finds no store name
Text_HeaderLate == <<"S","i","g","n"," ","T","y","p","e"," ","S","t","o","r","e",":"," ",
                     "C","0","0","0","1">>
Text_Body    == <<"W","i","d","g","e","t"," ","5">>
Text_BodyAlc == <<"*","S","h","e","l","f"," ","W","o","b","b","l","e","r"," ","K","i","t",";","\n",
                  "A","l","c","o","h","o","l"," ","V","e","r","s","i","o","n","*">>
Text_Blank   == <<" ","\n">>

HeaderTexts == {Text_HeaderA, Text_HeaderB, Text_HeaderLate}
BodyTexts   == {Text_Body, Text_BodyAlc}

IndexPages ==
    {Page(x) : x \in HeaderTexts \cup BodyTexts \cup {Text_Blank, <<>>}}
    \cup {[Page(Text_Body) EXCEPT !.text_raises = TRUE], [Page(Text_Body) EXCEPT !.loads = FALSE]}

InitIndex ==
    /\ \E n \in 0..MaxPages : doc \in [1..n -> IndexPages]
    /\ IndexEntry

NextIndex == IndexPage \/ FinishIndex

-----------------------------------------------------------------------------
(* extract_items_from_pages (lines 669-699) *)

Str_Sign_Type_Total == <<"S","i","g","n"," ","T","y","p","e"," ","T","o","t","a","l">>
Str_www_dot == <<"w","w","w",".">>
Str_scheme_sep == <<":","/","/">>

\* a plausible slip at line 689: a sign is accepted in front of the digits
IsDigitStr_signed(s) ==
    LET body == IF s # <<>> /\ Head(s) = "-" THEN Tail(s) ELSE s
    IN  body # <<>> /\ \A k \in 1..Len(body) : IsDecimalChar(body[k]) \/ body[k] = "sup2"

\* str.isdigit(): non-empty and digits only; superscript digits ("sup2" stands for
\* U+00B2) are digits for isdigit and are refused by int
IsDigitStr(s) == s # <<>> /\ \A k \in 1..Len(s) : IsDecimalChar(s[k]) \/ s[k] = "sup2"

\* int(s) raises ValueError
IntRaises(s) ==
    LET body == IF s # <<>> /\ Head(s) = "-" THEN Tail(s) ELSE s
    IN  body = <<>> \/ \E k \in 1..Len(body) : ~IsDecimalChar(body[k])

RECURSIVE NatOf(_)
NatOf(s) == IF s = <<>> THEN 0
            ELSE 10 * NatOf(SubSeq(s, 1, Len(s) - 1)) + (Ord(s[Len(s)]) - Ord("0"))

\* int(s) of a decimal literal with an optional sign
IntOf(s) == IF Head(s) = "-" THEN 0 - NatOf(Tail(s)) ELSE NatOf(s)

\* re.search(r'[a-z]+://|www\.', pr, re.I)
LooksLikeUrl(pr) ==
    \/ \E p \in 1..Len(pr) : IsLetter(pr[p]) /\ MatchAt(pr, p + 1, Str_scheme_sep)
    \/ Contains(Lower(pr), Str_www_dot)

\* ' '.join(parts)
RECURSIVE JoinSpace(_)
JoinSpace(parts) ==
    IF parts = <<>> THEN <<>>
    ELSE IF Len(parts) = 1 THEN parts[1]
         ELSE parts[1] \o <<" ">> \o JoinSpace(Tail(parts))

\* line 690: ' '.join([p for p in (promo_buf + [pr]) if p]).strip()
FullPromo(buf, pr) == Strip(JoinSpace(SelectSeq(Append(buf, pr), LAMBDA x : x # <<>>)))

\* a plausible slip at lines 682-683: the type of a row is its own type_text only
CarriedType_row_only(t, last) == t

\* lines 682-683: if t: last_type = t
CarriedType(t, last) == IF t # <<>> THEN t ELSE last

\* a plausible slip at line 687: the buffered fragments survive the terminator
TerminatedBuf_kept(buf) == buf

\* line 687: promo_buf = []
TerminatedBuf(buf) == <<>>

\* a plausible slip at line 670: the list outlives the call (a shared default list)
FreshItems_shared(old) == old

\* line 670: items = []
FreshItems(old) == <<>>

ItemsIdle ==
    /\ ex_pc = "idle" /\ ex_pages = <<>> /\ ex_p = 0 /\ ex_r = 0
    /\ items = <<>> /\ last_type = <<>> /\ promo_buf = <<>>
    /\ ex_stores = <<>> /\ ex_store = 0 /\ ex_result = EmptyMap
    /\ ex_prev = 0 /\ ex_again = FALSE

\* lines 669-672: a call of extract_items_from_pages(doc, pages) for store s
ExtractCall(s) ==
    /\ ex_pc \in {"idle", "done"}
    /\ s \in 1..Len(ex_stores)
    /\ ex_store' = s
    /\ ex_prev' = ex_store
    /\ ex_again' = (s \in DOMAIN ex_result)
    /\ ex_pages' = ex_stores[s]
    /\ ex_pc' = "rows"
    /\ ex_p' = 1
    /\ ex_r' = 1
    /\ items' = FreshItems(items)
    /\ last_type' = <<>>
    /\ promo_buf' = <<>>
    /\ UNCHANGED <<ex_stores, ex_result>>

\* the call returns: the caller keeps the first result of each store
ExtractReturn(result) ==
    /\ ex_pc' = "done"
    /\ ex_result' = IF ex_store \in DOMAIN ex_result THEN ex_result
                    ELSE Put(ex_result, ex_store, result)

\* lines 679-696: one pass of "for row in iter_rows(page, y_min, y_max)"
ExtractRow ==
    /\ ex_pc = "rows"
    /\ ex_p <= Len(ex_pages)
    /\ ex_r <= Len(doc[ex_pages[ex_p] + 1].rows)
    /\ LET row == doc[ex_pages[ex_p] + 1].rows[ex_r]
           t   == Strip(row.type_text)
           pr  == Strip(row.promo_text)
           qt  == Strip(row.qty_text)
           lt  == CarriedType(t, last_type)
           full_promo == FullPromo(promo_buf, pr)
       IN  IF Contains(t \o <<" ">> \o pr, Str_Sign_Type_Total)
           THEN /\ last_type' = <<>>
                /\ promo_buf' = TerminatedBuf(promo_buf)
                /\ ex_r' = ex_r + 1
                /\ UNCHANGED <<items, ex_pc, ex_result>>
           ELSE IF IsDigitStr(qt) /\ lt # <<>>
           THEN IF full_promo # <<>> /\ IntRaises(qt)
                THEN \* int(qt) raises: caught at line 697, the items so far are returned
                     /\ last_type' = lt
                     /\ ExtractReturn(items)
                     /\ UNCHANGED <<items, promo_buf, ex_r>>
                ELSE /\ last_type' = lt
                     /\ items' = IF full_promo # <<>>
                                 THEN Append(items, Item(lt, full_promo, IntOf(qt)))
                                 ELSE items
                     /\ promo_buf' = <<>>
                     /\ ex_r' = ex_r + 1
                     /\ UNCHANGED <<ex_pc, ex_result>>
           ELSE /\ last_type' = lt
                /\ promo_buf' = IF pr # <<>> /\ ~LooksLikeUrl(pr)
                                THEN Append(promo_buf, pr) ELSE promo_buf
                /\ ex_r' = ex_r + 1
                /\ UNCHANGED <<items, ex_pc, ex_result>>
    /\ UNCHANGED <<ex_pages, ex_p, ex_stores, ex_store, ex_prev, ex_again>>
    /\ UNCHANGED <<doc, canonVars, kitVars, indexVars, fitVars, procVars, columnVars, rowVars, classVars, wrapVars>>

\* line 674: the rows of the page are exhausted, the outer loop moves on
ExtractNextPage ==
    /\ ex_pc = "rows"
    /\ ex_p <= Len(ex_pages)
    /\ ex_r > Len(doc[ex_pages[ex_p] + 1].rows)
    /\ ex_p' = ex_p + 1
    /\ ex_r' = 1
    /\ UNCHANGED <<ex_pc, ex_pages, items, last_type, promo_buf, ex_stores, ex_store, ex_result,
                   ex_prev, ex_again>>
    /\ UNCHANGED <<doc, canonVars, kitVars, indexVars, fitVars, procVars, columnVars, rowVars, classVars, wrapVars>>

\* line 699: return items
FinishExtract ==
    /\ ex_pc = "rows"
    /\ ex_p > Len(ex_pages)
    /\ ExtractReturn(items)
    /\ UNCHANGED <<ex_pages, ex_p, ex_r, items, last_type, promo_buf, ex_stores, ex_store,
                   ex_prev, ex_again>>
    /\ UNCHANGED <<doc, canonVars, kitVars, indexVars, fitVars, procVars, columnVars, rowVars, classVars, wrapVars>>

\* the caller extracts the items of some store (again)
CallExtract ==
    /\ \E s \in 1..Len(ex_stores) : ExtractCall(s)
    /\ UNCHANGED <<doc, canonVars, kitVars, indexVars, fitVars, procVars, columnVars, rowVars, classVars, wrapVars>>

-----------------------------------------------------------------------------
(* Documents handed to extract_items_from_pages *)

Str_Widget == <<"W","i","d","g","e","t">>
Str_Promo  == <<"P","r","o","m","o">>
Str_url    == <<"w","w","w",".","k","f",".","c","o","m">>

Row(t, p, q) == [type_text |-> t, promo_text |-> p, qty_text |-> q]

RowItem    == Row(S_SHELF_WOBBLER, Str_Widget_Promo, <<"5">>)
RowFrag    == Row(<<>>, Str_Widget, <<>>)
RowCont    == Row(<<>>, Str_Promo, <<"1", "2">>)
RowTotal   == Row(Str_Sign_Type_Total, <<>>, <<"7">>)
RowSplit   == Row(Str_Sign_Type, <<"T","o","t","a","l">>, <<>>)
RowUrl     == Row(<<>>, Str_url, <<>>)
RowZero    == Row(Str_Banner_Sign, Str_Promo_A, <<"0">>)
RowSup     == Row(<<>>, Str_Promo_B, <<"sup2">>)
RowMinus   == Row(Str_Banner_Sign, <<>>, <<"-", "5">>)

Rows == {RowItem, RowFrag, RowCont, RowTotal, RowSplit, RowUrl, RowZero, RowSup, RowMinus}

RowsPage(rows) == [Page(Text_Body) EXCEPT !.rows = rows]

\* a document of two pages holding up to MaxRows rows, as one store of both pages or as
\* two stores of one page each
InitItems ==
    /\ \E n \in 0..MaxRows :
       \E rows \in [1..n -> Rows] :
       \E cut \in 0..n :
          doc = <<RowsPage(SubSeq(rows, 1, cut)), RowsPage(SubSeq(rows, cut + 1, n))>>
    /\ ex_stores \in { << <<0, 1>> >>, << <<0>>, <<1>> >> }
    /\ ex_pc = "idle" /\ ex_pages = <<>> /\ ex_p = 0 /\ ex_r = 0
    /\ items = <<>> /\ last_type = <<>> /\ promo_buf = <<>>
    /\ ex_store = 0 /\ ex_result = EmptyMap
    /\ ex_prev = 0 /\ ex_again = FALSE

NextItems == CallExtract \/ ExtractRow \/ ExtractNextPage \/ FinishExtract

-----------------------------------------------------------------------------
(* compute_envelope_fit (lines 764-776) *)

\* line 765: will = {canon(x) for x in fit_cfg.get("will_fit", [])}
WillSet(cfg_will_fit) == {canon(x) : x \in Range(cfg_will_fit)}

\* a plausible slip at line 772: any() instead of all()
FitsAll_any(its, will) == \E k \in 1..Len(its) : canon(its[k].type) \in will

\* line 772: all(canon(it.get('type','')) in will for it in items)
FitsAll(its, will) == \A k \in 1..Len(its) : canon(its[k].type) \in will

FitIdle ==
    /\ fit_pc = "idle" /\ fit_i = 0 /\ fit_stores = <<>> /\ will_fit = <<>>
    /\ fits = <<>> /\ not_fits = <<>>

\* lines 764-766: entry of compute_envelope_fit(stores, fit_cfg)
FitEntry(the_stores, cfg_will_fit) ==
    /\ fit_pc = "loop" /\ fit_i = 1 /\ fit_stores = the_stores /\ will_fit = cfg_will_fit
    /\ fits = <<>> /\ not_fits = <<>>

\* lines 767-772: one pass of "for s in stores"
FitStore ==
    /\ fit_pc = "loop"
    /\ fit_i <= Len(fit_stores)
    /\ LET s == fit_stores[fit_i]
           v == IF s.items = <<>> THEN FALSE ELSE FitsAll(s.items, WillSet(will_fit))
       IN  fit_stores' = [fit_stores EXCEPT ![fit_i] = Put(s, "fits_envelope", v)]
    /\ fit_i' = fit_i + 1
    /\ UNCHANGED <<fit_pc, will_fit, fits, not_fits>>
    /\ UNCHANGED <<doc, canonVars, kitVars, indexVars, itemVars, procVars, columnVars, rowVars, classVars, wrapVars>>

\* lines 773-776: the two lists
FinishFit ==
    /\ fit_pc = "loop"
    /\ fit_i > Len(fit_stores)
    /\ fits' = SelectSeq(fit_stores, LAMBDA s : s.fits_envelope)
    /\ not_fits' = SelectSeq(fit_stores, LAMBDA s : ~s.fits_envelope)
    /\ fit_pc' = "done"
    /\ UNCHANGED <<fit_i, fit_stores, will_fit>>
    /\ UNCHANGED <<doc, canonVars, kitVars, indexVars, itemVars, procVars, columnVars, rowVars, classVars, wrapVars>>

Str_Pole_Sign == <<"P","o","l","e"," ","S","i","g","n">>
Str_BANNER_star == <<"*","B","A","N","N","E","R"," ","S","I","G","N","*">>

TypeLists == { <<>>, <<S_SHELF_WOBBLER>>, <<S_SHELF_WOBBLER, Str_Banner_Sign>>,
               <<Str_SHELF_star, Str_Pole_Sign>>, <<Str_Banner_Sign>> }

WillFitLists == { <<>>, <<S_SHELF_WOBBLER>>, <<Str_BANNER_star>>,
                  <<S_SHELF_WOBBLER, Str_BANNER_star>>,
                  <<Str_Pole_Sign, S_SHELF_WOBBLER, Str_Banner_Sign>> }

FitStoreOf(k, types) ==
    [ store_id |-> StoreId(StoreName(k), Str_Class10), store_name |-> StoreName(k),
      items |-> [j \in 1..Len(types) |-> Item(types[j], Str_Promo_A, 1)] ]

InitFit ==
    \E n \in 0..MaxFitStores :
    \E types \in [1..n -> TypeLists] :
    \E w \in WillFitLists :
        FitEntry([k \in 1..n |-> FitStoreOf(k, types[k])], w)

NextFit == FitStore \/ FinishFit

-----------------------------------------------------------------------------
(* Store helpers of the run (lines 89-112, 753-762, 916-926, 967-980, 1029-1031) *)

STORE_TYPE_ORDER ==
    << Str_Alcohol \o Str_Counter_Shipper, Str_Alcohol \o Str_Counter,
       Str_Alcohol \o Str_Shipper, Str_Alcohol \o Str_No_Counter_Shipper,
       Str_Non_Alcohol \o Str_Counter_Shipper, Str_Non_Alcohol \o Str_Counter,
       Str_Non_Alcohol \o Str_Shipper, Str_Non_Alcohol \o Str_No_Counter_Shipper,
       Tail(Str_Counter_Shipper), Tail(Str_Counter), Tail(Str_Shipper),
       Tail(Str_No_Counter_Shipper), <<>> >>

\* the default rank of line 1030
UNRANKED == 999

\* line 1030: STORE_TYPE_RANK.get(s['store_type'], 999), ranks counted from 0
StoreTypeRank(store_type) ==
    IF \E k \in 1..Len(STORE_TYPE_ORDER) : STORE_TYPE_ORDER[k] = store_type
    THEN (CHOOSE k \in 1..Len(STORE_TYPE_ORDER) : STORE_TYPE_ORDER[k] = store_type) - 1
    ELSE UNRANKED

\* lines 1029-1031: a sorts before b under store_sort_key = (rank, location, store_name)
StoreKeyLess(a, b) ==
    LET ra == StoreTypeRank(a.store_type)
        rb == StoreTypeRank(b.store_type)
    IN  \/ ra < rb
        \/ ra = rb /\ StrLess(a.location, b.location)
        \/ ra = rb /\ a.location = b.location /\ StrLess(a.store_name, b.store_name)

\* sorted(stores, key=store_sort_key), a stable sort
RECURSIVE InsertStore(_, _)
InsertStore(x, s) ==
    IF s = <<>> THEN <<x>>
    ELSE IF StoreKeyLess(x, Head(s)) THEN <<x>> \o s
         ELSE <<Head(s)>> \o InsertStore(x, Tail(s))

RECURSIVE SortStores(_)
SortStores(s) == IF s = <<>> THEN <<>> ELSE InsertStore(s[Len(s)], SortStores(SubSeq(s, 1, Len(s) - 1)))

SPECIAL_SIGNAGE_LABELS ==
    << [label |-> Str_Banner_Sign, needles |-> << <<"b","a","n","n","e","r"," ","s","i","g","n">> >>],
       [label |-> <<"Y","a","r","d"," ","S","i","g","n">>,
        needles |-> << <<"y","a","r","d"," ","s","i","g","n">> >>],
       [label |-> <<"A"," ","F","r","a","m","e">>,
        needles |-> << <<"a"," ","f","r","a","m","e">>, <<"a","-","f","r","a","m","e">> >>],
       [label |-> <<"B","o","l","l","a","r","d"," ","C","o","v","e","r">>,
        needles |-> << <<"b","o","l","l","a","r","d"," ","c","o","v","e","r">> >>],
       [label |-> Str_Pole_Sign, needles |-> << <<"p","o","l","e"," ","s","i","g","n">> >>],
       [label |-> <<"E","a","s","e","l"," ","S","i","g","n">>,
        needles |-> << <<"e","a","s","e","l"," ","s","i","g","n">> >>] >>

SPECIAL_SIGNAGE_LABEL_ORDER == [k \in 1..Len(SPECIAL_SIGNAGE_LABELS) |-> SPECIAL_SIGNAGE_LABELS[k].label]

\* lines 916-926: the first label one of whose needles is in a canonical item type,
\* <<>> for None
detect_special_box_label(store) ==
    LET types == {canon(store.items[k].type) : k \in {j \in 1..Len(store.items) : store.items[j].type # <<>>}}
        hit(k) == \E n \in Range(SPECIAL_SIGNAGE_LABELS[k].needles) : \E st \in types : Contains(st, n)
        hits == {k \in 1..Len(SPECIAL_SIGNAGE_LABELS) : hit(k)}
    IN  IF store.items = <<>> \/ hits = {} THEN <<>>
        ELSE SPECIAL_SIGNAGE_LABELS[CHOOSE k \in hits : \A j \in hits : k <= j].label

PROMO_WOBBLER_ALC_CANON ==
    canon(<<"S","h","e","l","f"," ","W","o","b","b","l","e","r"," ","K","i","t",";"," ",
            "A","l","c","o","h","o","l"," ","V","e","r","s","i","o","n">>)
PROMO_WOBBLER_NONALC_CANON ==
    canon(<<"S","h","e","l","f"," ","W","o","b","b","l","e","r"," ","K","i","t",";"," ",
            "N","o","n","-","A","l","c","o","h","o","l"," ","V","e","r","s","i","o","n">>)

\* lines 967-980
store_should_drop_nonalc(its) ==
    /\ \E k \in 1..Len(its) : /\ canon(its[k].type) = TYPE_SHELF_WOBBLER_CANON
                               /\ canon(its[k].promo) = PROMO_WOBBLER_ALC_CANON
    /\ \E k \in 1..Len(its) : /\ canon(its[k].type) = TYPE_SHELF_WOBBLER_CANON
                               /\ canon(its[k].promo) = PROMO_WOBBLER_NONALC_CANON

\* lines 753-762: the first-seen spelling of each canonical sign type, in order
RECURSIVE UniqueTypesFrom(_, _, _)
UniqueTypesFrom(types, seen, acc) ==
    IF types = <<>> THEN acc
    ELSE LET st == Strip(Head(types)) IN
         IF st # <<>> /\ canon(st) \notin seen
         THEN UniqueTypesFrom(Tail(types), seen \cup {canon(st)}, Append(acc, st))
         ELSE UniqueTypesFrom(Tail(types), seen, acc)

RECURSIVE AllItemTypes(_)
AllItemTypes(ss) ==
    IF ss = <<>> THEN <<>>
    ELSE [k \in 1..Len(Head(ss).items) |-> Head(ss).items[k].type] \o AllItemTypes(Tail(ss))

unique_sign_types(ss) == UniqueTypesFrom(AllItemTypes(ss), {}, <<>>)

-----------------------------------------------------------------------------
(* render_store_group (lines 928-951) and the output pages of the run *)

\* lines 934-951 over the remaining stores; cur is current_type, first marks current_type = None
RECURSIVE RenderStores(_, _, _, _)
RenderStores(ss, cur, first, lookup) ==
    IF ss = <<>> THEN <<>>
    ELSE LET store == Head(ss)
             kit_name == Get(lookup, store.store_id, <<>>)
             heading == IF first \/ store.store_type # cur
                        THEN <<[kind |-> "store_type", store_type |-> store.store_type]>>
                        ELSE <<>>
             copies == [k \in 1..Len(store.pages) |->
                           [kind |-> "copy", page |-> store.pages[k], store_id |-> store.store_id,
                            kit |-> kit_name, drop_nonalc |-> store.drop_nonalc_wobbler]]
         IN  heading \o copies \o RenderStores(Tail(ss), store.store_type, FALSE, lookup)

\* lines 928-932: nothing for an empty group, else a title page and the stores
render_store_group(ss, lookup, group, label) ==
    IF ss = <<>> THEN <<>>
    ELSE <<[kind |-> "section", group |-> group, label |-> label]>>
         \o RenderStores(ss, <<>>, TRUE, lookup)

RECURSIVE RenderSpecial(_, _, _)
RenderSpecial(k, special, lookup) ==
    IF k > Len(SPECIAL_SIGNAGE_LABEL_ORDER) THEN <<>>
    ELSE render_store_group(special[SPECIAL_SIGNAGE_LABEL_ORDER[k]], lookup, "special",
                            SPECIAL_SIGNAGE_LABEL_ORDER[k])
         \o RenderSpecial(k + 1, special, lookup)

\* lines 1050-1120: the summary page, the groups, the kit appendix (one page per text
\* block; the page breaks of the text layout are not counted here)
OutputPages(fits_sorted, special, general, the_kits, lookup) ==
    <<[kind |-> "summary"]>>
    \o render_store_group(fits_sorted, lookup, "envelope", <<>>)
    \o RenderSpecial(1, special, lookup)
    \o render_store_group(general, lookup, "general", <<>>)
    \o <<[kind |-> "kits_cover"]>>
    \o [k \in 1..Len(the_kits) |-> [kind |-> "kit", kit_name |-> the_kits[k].kit_name]]

-----------------------------------------------------------------------------
(* process_pdf_sorted_with_kits_and_envelopes (lines 984-1134) *)

ProcIdle ==
    /\ pr_pc = "idle" /\ pr_k = 0 /\ msgs = <<>> /\ saved = FALSE /\ out = <<>>
    /\ raised = {} /\ no_order_stores = <<>> /\ stores_with_items = <<>>
    /\ box_special = EmptyMap /\ box_general = <<>>

\* a plausible slip at lines 1125-1128: the handler logs and returns without a message
OuterHandler_silent(shown) == shown

\* lines 1125-1128: the top-level handler shows the generic fatal-error message
OuterHandler(shown) == Append(shown, "fatal")

\* an exception raised at `place` in the try block of line 1000 reaches the handler
RaiseToTop(place) ==
    /\ raised' = raised \cup {place}
    /\ msgs' = OuterHandler(msgs)
    /\ pr_pc' = "end"

\* lines 1001-1004: the document opens and index_stores(doc) is called
ProcOpen ==
    /\ pr_pc = "start"
    /\ pr_pc' = "index"
    /\ ix_pc' = "loop" /\ ix_i' = 0 /\ stores' = <<>> /\ current' = NoStore
    /\ accum' = <<>> /\ meta' = EmptyMap
    /\ UNCHANGED <<pr_k, msgs, saved, out, raised, no_order_stores, stores_with_items,
                   box_special, box_general>>
    /\ UNCHANGED <<doc, canonVars, kitVars, itemVars, fitVars, columnVars, rowVars, classVars, wrapVars>>

\* line 1001: fitz.open raises
ProcOpenRaises ==
    /\ pr_pc = "start"
    /\ RaiseToTop("open")
    /\ UNCHANGED <<pr_k, saved, out, no_order_stores, stores_with_items, box_special, box_general>>
    /\ UNCHANGED <<doc, canonVars, kitVars, indexVars, itemVars, fitVars, columnVars, rowVars, classVars, wrapVars>>

\* lines 1004-1005: index_stores has returned, whether it finished the loop or caught an
\* exception; the loop over the stores starts
ProcIndexDone ==
    /\ pr_pc = "index"
    /\ ix_pc = "done"
    /\ pr_pc' = "extract"
    /\ pr_k' = 1
    /\ ex_stores' = [k \in 1..Len(stores) |-> stores[k].pages]
    /\ raised' = IF ix_i < Len(doc) THEN raised \cup {"index_stores"} ELSE raised
    /\ UNCHANGED <<ex_pc, ex_pages, ex_p, ex_r, items, last_type, promo_buf, ex_store,
                   ex_result, ex_prev, ex_again>>
    /\ UNCHANGED <<msgs, saved, out, no_order_stores, stores_with_items, box_special, box_general>>
    /\ UNCHANGED <<doc, canonVars, kitVars, indexVars, fitVars, columnVars, rowVars, classVars, wrapVars>>

\* line 1008: extract_items_from_pages(doc, s['pages']) is called for the next store
ProcCallExtract ==
    /\ pr_pc = "extract"
    /\ ex_pc = "idle"
    /\ pr_k <= Len(stores)
    /\ ExtractCall(pr_k)
    /\ UNCHANGED procVars
    /\ UNCHANGED <<doc, canonVars, kitVars, indexVars, fitVars, columnVars, rowVars, classVars, wrapVars>>

\* lines 1008-1009: the call has returned, whether it finished its loops or caught an
\* exception; s['items'] and s['drop_nonalc_wobbler'] are set
ProcStoreItems ==
    /\ pr_pc = "extract"
    /\ ex_pc = "done"
    /\ stores' = [stores EXCEPT ![ex_store] =
                     Put(Put(@, "items", items), "drop_nonalc_wobbler", store_should_drop_nonalc(items))]
    /\ raised' = IF ex_p <= Len(ex_pages) THEN raised \cup {"extract_items_from_pages"} ELSE raised
    /\ ex_pc' = "idle"
    /\ pr_k' = pr_k + 1
    /\ UNCHANGED <<ix_pc, ix_i, current, accum, meta>>
    /\ UNCHANGED <<ex_pages, ex_p, ex_r, items, last_type, promo_buf, ex_stores, ex_store,
                   ex_result, ex_prev, ex_again>>
    /\ UNCHANGED <<pr_pc, msgs, saved, out, no_order_stores, stores_with_items,
                   box_special, box_general>>
    /\ UNCHANGED <<doc, canonVars, kitVars, fitVars, columnVars, rowVars, classVars, wrapVars>>

\* a plausible slip at line 1019: the test is left out and the run goes on
NoSignTypes_never(sign_types) == FALSE

\* line 1019: if not sign_types
NoSignTypes(sign_types) == sign_types = <<>>

\* lines 1013-1022: the stores are split; with no sign type the stop message is shown
\* and the run returns
ProcSignTypes ==
    /\ pr_pc = "extract"
    /\ ex_pc = "idle"
    /\ pr_k > Len(stores)
    /\ no_order_stores' = SelectSeq(stores, LAMBDA s : s.items = <<>>)
    /\ stores_with_items' = SelectSeq(stores, LAMBDA s : s.items # <<>>)
    /\ IF NoSignTypes(unique_sign_types(SelectSeq(stores, LAMBDA s : s.items # <<>>)))
       THEN /\ msgs' = Append(msgs, "stop")
            /\ pr_pc' = "end"
       ELSE /\ msgs' = msgs
            /\ pr_pc' = "gui"
    /\ UNCHANGED <<pr_k, saved, out, raised, box_special, box_general>>
    /\ UNCHANGED <<doc, canonVars, kitVars, indexVars, itemVars, fitVars, columnVars, rowVars, classVars, wrapVars>>

\* lines 1023-1026: the dialog returns the will_fit list the user saved, and
\* compute_envelope_fit(stores_with_items, fit_cfg) is called
ProcGui ==
    /\ pr_pc = "gui"
    /\ \E w \in WillFitLists :
          /\ fit_pc' = "loop" /\ fit_i' = 1 /\ fit_stores' = stores_with_items
          /\ will_fit' = w /\ fits' = <<>> /\ not_fits' = <<>>
    /\ pr_pc' = "fit"
    /\ UNCHANGED <<pr_k, msgs, saved, out, raised, no_order_stores, stores_with_items,
                   box_special, box_general>>
    /\ UNCHANGED <<doc, canonVars, kitVars, indexVars, itemVars, columnVars, rowVars, classVars, wrapVars>>

\* line 1023: gui_envelope_fit raises
ProcGuiRaises ==
    /\ pr_pc = "gui"
    /\ RaiseToTop("gui_envelope_fit")
    /\ UNCHANGED <<pr_k, saved, out, no_order_stores, stores_with_items, box_special, box_general>>
    /\ UNCHANGED <<doc, canonVars, kitVars, indexVars, itemVars, fitVars, columnVars, rowVars, classVars, wrapVars>>

\* a plausible slip at lines 1037-1041: the else is missing and every box store is
\* appended to box_general
BoxGeneral_all(not_fits_sorted) == not_fits_sorted

\* lines 1036-1041: the box stores for which detect_special_box_label returns None
BoxGeneral(not_fits_sorted) ==
    SelectSeq(not_fits_sorted, LAMBDA s : detect_special_box_label(s) = <<>>)

\* lines 1029-1047: the buckets are sorted, the box stores are split by special signage,
\* and group_wobbler_kits(stores_with_items, min_stores=10) is called
ProcBucket ==
    /\ pr_pc = "fit"
    /\ fit_pc = "done"
    /\ LET not_fits_sorted == SortStores(not_fits) IN
       /\ box_special' = [label \in Range(SPECIAL_SIGNAGE_LABEL_ORDER) |->
                             SelectSeq(not_fits_sorted,
                                       LAMBDA s : detect_special_box_label(s) = label)]
       /\ box_general' = BoxGeneral(not_fits_sorted)
    /\ gk_stores' = fit_stores /\ gk_min' = DEFAULT_MIN_STORES /\ gk_pc' = "scan" /\ gk_i' = 1
    /\ rep_text' = EmptyMap /\ combos' = <<>> /\ kits' = <<>> /\ idx' = 1
    /\ kit_by_store_id' = EmptyMap /\ gk_placed' = <<>>
    /\ pr_pc' = "kits"
    /\ UNCHANGED <<pr_k, msgs, saved, out, raised, no_order_stores, stores_with_items>>
    /\ UNCHANGED <<doc, canonVars, indexVars, itemVars, fitVars, columnVars, rowVars, classVars, wrapVars>>

\* lines 747-749: an exception raised inside group_wobbler_kits is caught there and
\* ([], {}) is returned
KitsRaise ==
    /\ pr_pc = "kits"
    /\ gk_pc \in {"scan", "build"}
    /\ kits' = <<>>
    /\ kit_by_store_id' = EmptyMap
    /\ gk_pc' = "done"
    /\ raised' = raised \cup {"group_wobbler_kits"}
    /\ UNCHANGED <<gk_stores, gk_min, gk_i, rep_text, combos, idx, gk_placed>>
    /\ UNCHANGED <<pr_pc, pr_k, msgs, saved, out, no_order_stores, stores_with_items,
                   box_special, box_general>>
    /\ UNCHANGED <<doc, canonVars, indexVars, itemVars, fitVars, columnVars, rowVars, classVars, wrapVars>>

\* lines 1050-1120: the output document is built
ProcRender ==
    /\ pr_pc = "kits"
    /\ gk_pc = "done"
    /\ out' = OutputPages(SortStores(fits), box_special, box_general, kits, kit_by_store_id)
    /\ pr_pc' = "save"
    /\ UNCHANGED <<pr_k, msgs, saved, raised, no_order_stores, stores_with_items,
                   box_special, box_general>>
    /\ UNCHANGED <<doc, canonVars, kitVars, indexVars, itemVars, fitVars, columnVars, rowVars, classVars, wrapVars>>

\* lines 1050-1120: a drawing call raises; the output built so far is dropped
ProcRenderRaises ==
    /\ pr_pc = "kits"
    /\ gk_pc = "done"
    /\ RaiseToTop("render")
    /\ UNCHANGED <<pr_k, saved, out, no_order_stores, stores_with_items, box_special, box_general>>
    /\ UNCHANGED <<doc, canonVars, kitVars, indexVars, itemVars, fitVars, columnVars, rowVars, classVars, wrapVars>>

\* lines 1123-1134: the file is saved, the documents are closed, the completion
\* message is shown
ProcSave ==
    /\ pr_pc = "save"
    /\ saved' = TRUE
    /\ msgs' = Append(msgs, "complete")
    /\ pr_pc' = "end"
    /\ UNCHANGED <<pr_k, out, raised, no_order_stores, stores_with_items, box_special, box_general>>
    /\ UNCHANGED <<doc, canonVars, kitVars, indexVars, itemVars, fitVars, columnVars, rowVars, classVars, wrapVars>>

\* lines 1123-1124: ensure_unique_path or out.save raises: no file is written
ProcSaveRaises ==
    /\ pr_pc = "save"
    /\ RaiseToTop("save")
    /\ UNCHANGED <<pr_k, saved, out, no_order_stores, stores_with_items, box_special, box_general>>
    /\ UNCHANGED <<doc, canonVars, kitVars, indexVars, itemVars, fitVars, columnVars, rowVars, classVars, wrapVars>>

\* line 1124: out.save has written the file and out.close (or closing doc) raises
ProcCloseRaises ==
    /\ pr_pc = "save"
    /\ saved' = TRUE
    /\ RaiseToTop("close")
    /\ UNCHANGED <<pr_k, out, no_order_stores, stores_with_items, box_special, box_general>>
    /\ UNCHANGED <<doc, canonVars, kitVars, indexVars, itemVars, fitVars, columnVars, rowVars, classVars, wrapVars>>

-----------------------------------------------------------------------------
(* Documents handed to the whole run *)

ProcPages ==
    { [Page(Text_HeaderA) EXCEPT !.rows = <<RowItem>>],
      [Page(Text_HeaderB) EXCEPT !.rows = <<RowZero>>],
      [Page(Text_HeaderB) EXCEPT !.rows = <<RowZero, RowItem>>],
      [Page(Text_HeaderLate) EXCEPT !.rows = <<>>],
      [Page(Text_Body) EXCEPT !.rows = <<RowSup, RowCont>>],
      Page(Text_Blank),
      [Page(Text_Body) EXCEPT !.loads = FALSE] }

\* a store ordering two shelf wobblers
KitOrderPage == [Page(Text_HeaderA) EXCEPT !.rows = <<RowItem, RowCont>>]

\* a document of up to MaxProcPages pages, or one of 9 or 10 stores with the same two
\* wobblers
InitProc ==
    /\ \/ \E n \in 0..MaxProcPages : doc \in [1..n -> ProcPages]
       \/ \E n \in {DEFAULT_MIN_STORES - 1, DEFAULT_MIN_STORES} : doc = [k \in 1..n |-> KitOrderPage]
    /\ pr_pc = "start" /\ pr_k = 0 /\ msgs = <<>> /\ saved = FALSE /\ out = <<>>
    /\ raised = {} /\ no_order_stores = <<>> /\ stores_with_items = <<>>
    /\ box_special = EmptyMap /\ box_general = <<>>

NextProc ==
    \/ ProcOpen \/ ProcOpenRaises
    \/ IndexPage \/ FinishIndex \/ ProcIndexDone
    \/ ProcCallExtract \/ ExtractRow \/ ExtractNextPage \/ FinishExtract \/ ProcStoreItems
    \/ ProcSignTypes \/ ProcGui \/ ProcGuiRaises
    \/ FitStore \/ FinishFit \/ ProcBucket
    \/ GroupStore \/ StartBuild \/ BuildKit \/ FinishKits \/ KitsRaise
    \/ ProcRender \/ ProcRenderRaises
    \/ ProcSave \/ ProcSaveRaises \/ ProcCloseRaises

-----------------------------------------------------------------------------
(* detect_columns (lines 453-474) and iter_rows (lines 476-509); lengths in hundredths
   of a point *)

\* search_for found nothing: rs[0] if rs else None
NoRect == [found |-> FALSE, x0 |-> 0, y1 |-> 0]

FoundRect(x0, y1) == [found |-> TRUE, x0 |-> x0, y1 |-> y1]

\* lines 462-465: the y1 of both fallback rectangles, 20
FALLBACK_Y1 == 2000

\* line 463: fitz.Rect(w*0.25, 0, w*0.55, 20)
FallbackPromo(w) == FoundRect(w \div 4, FALLBACK_Y1)

\* line 465: fitz.Rect(w*0.80, 0, w*0.95, 20)
FallbackQty(w) == FoundRect((w * 4) \div 5, FALLBACK_Y1)

MaxOf(S) == CHOOSE m \in S : \A x \in S : x <= m

NoCols == [x_promo_left |-> 0, x_qty_left |-> 0, header_bottom |-> 0]

\* line 466: max([r.y1 for r in [rect_sign, rect_promo, rect_qty] if r] or [0]); a
\* rectangle is false only when all its coordinates are 0
HeaderBottom(rect_sign, rect_promo, rect_qty) ==
    LET ys == {r.y1 : r \in {x \in {rect_sign, rect_promo, rect_qty} : x.found}}
    IN  IF ys = {} THEN 0 ELSE MaxOf(ys)

\* lines 453-474
detect_columns(page) ==
    IF page.search_raises
    THEN [x_promo_left |-> page.width \div 4, x_qty_left |-> (page.width * 4) \div 5,
          header_bottom |-> 0]
    ELSE LET rect_sign  == page.rs
             rect_promo == IF page.rp.found THEN page.rp ELSE FallbackPromo(page.width)
             rect_qty   == IF page.rq.found THEN page.rq ELSE FallbackQty(page.width)
         IN  [x_promo_left |-> rect_promo.x0, x_qty_left |-> rect_qty.x0,
              header_bottom |-> HeaderBottom(rect_sign, rect_promo, rect_qty)]

\* round(y0, 1), for y0 whose hundredths digit is not 5
Round1(y) == ((y + 5) \div 10) * 10

\* line 484: the word lies outside the band
OutsideBand(w, y_min, y_max) == w.y0 < y_min \/ w.y1 > y_max

RowKey(w) == [blk |-> w.blk, ln |-> w.ln, y |-> Round1(w.y0)]

\* lines 482-486: the keys in the order the dict first saw them
RECURSIVE KeysOf(_, _, _)
KeysOf(words, y_min, y_max) ==
    IF words = <<>> THEN <<>>
    ELSE LET rest == KeysOf(SubSeq(words, 1, Len(words) - 1), y_min, y_max)
             w == words[Len(words)]
         IN  IF OutsideBand(w, y_min, y_max) \/ \E k \in 1..Len(rest) : rest[k] = RowKey(w)
             THEN rest ELSE Append(rest, RowKey(w))

\* a plausible slip at line 489: the rows are left in the order the dict saw them
SortKeys_unsorted(keys) == keys

\* line 489: sorted(rows.keys(), key=lambda k: k[2]), a stable sort
RECURSIVE SortKeys(_)
SortKeys(keys) ==
    IF keys = <<>> THEN <<>>
    ELSE LET rest == SortKeys(SubSeq(keys, 1, Len(keys) - 1))
             x == keys[Len(keys)]
             before == Cardinality({k \in 1..Len(rest) : rest[k].y <= x.y})
         IN  SubSeq(rest, 1, before) \o <<x>> \o SubSeq(rest, before + 1, Len(rest))

\* line 490: sorted(rows[key], key=lambda t: t[-1]), a stable sort by word number
RECURSIVE SortParts(_)
SortParts(parts) ==
    IF parts = <<>> THEN <<>>
    ELSE LET rest == SortParts(SubSeq(parts, 1, Len(parts) - 1))
             x == parts[Len(parts)]
             before == Cardinality({k \in 1..Len(rest) : rest[k].wn <= x.wn})
         IN  SubSeq(rest, 1, before) \o <<x>> \o SubSeq(rest, before + 1, Len(rest))

\* lines 486, 490: the words of a key, sorted by word number
PartsOf(words, key, y_min, y_max) ==
    SortParts(SelectSeq(words, LAMBDA w : ~OutsideBand(w, y_min, y_max) /\ RowKey(w) = key))

\* lines 494-500: the bucket of a word: xc = 0.5*(x0+x1) against the two boundaries
Bucket(w, x_prom, x_qty) ==
    IF w.x0 + w.x1 < 2 * x_prom THEN "type"
    ELSE IF w.x0 + w.x1 < 2 * x_qty THEN "promo"
    ELSE "qty"

TextsOf(ws) == [k \in 1..Len(ws) |-> ws[k].txt]

\* lines 491-508: the row yielded for the words of one key; words keeps which word went
\* to which bucket
MakeRow(parts, x_prom, x_qty) ==
    LET in(b) == SelectSeq(parts, LAMBDA w : Bucket(w, x_prom, x_qty) = b)
    IN  [type_text  |-> Strip(JoinSpace(TextsOf(in("type")))),
         promo_text |-> Strip(JoinSpace(TextsOf(in("promo")))),
         qty_text   |-> Strip(JoinSpace(TextsOf(in("qty")))),
         y          |-> Round1(parts[1].y0),
         words      |-> [type |-> in("type"), promo |-> in("promo"), qty |-> in("qty")]]

RowsIdle ==
    /\ rw_pc = "idle" /\ rw_page = <<>> /\ rw_cols = NoCols /\ rw_ymin = 0 /\ rw_ymax = 0
    /\ rw_pending = <<>> /\ rw_out = <<>>

\* line 676: cols = detect_columns(page)
DetectColumns ==
    /\ rw_pc = "ready"
    /\ rw_cols' = detect_columns(rw_page)
    /\ rw_pc' = "detected"
    /\ UNCHANGED <<rw_page, rw_ymin, rw_ymax, rw_pending, rw_out>>
    /\ UNCHANGED <<doc, canonVars, kitVars, indexVars, itemVars, fitVars, procVars, columnVars, classVars, wrapVars>>

\* lines 677-679 and 477-489: y_min and y_max are set from the columns and the page,
\* iter_rows reads the words (none when get_text raises), groups and sorts them
IterRowsStart ==
    /\ rw_pc = "detected"
    /\ LET y_min == rw_cols.header_bottom + 200
           y_max == rw_page.height - 3600
           words == IF rw_page.words_raise THEN <<>> ELSE rw_page.words
           cols  == detect_columns(rw_page)
           keys  == SortKeys(KeysOf(words, y_min, y_max))
       IN  /\ rw_ymin' = y_min
           /\ rw_ymax' = y_max
           /\ rw_pending' = [k \in 1..Len(keys) |->
                                MakeRow(PartsOf(words, keys[k], y_min, y_max),
                                        cols.x_promo_left, cols.x_qty_left)]
    /\ rw_pc' = "iter"
    /\ UNCHANGED <<rw_page, rw_cols, rw_out>>
    /\ UNCHANGED <<doc, canonVars, kitVars, indexVars, itemVars, fitVars, procVars, columnVars, classVars, wrapVars>>

\* lines 489-509: the next row is yielded
IterRowsYield ==
    /\ rw_pc = "iter"
    /\ rw_pending # <<>>
    /\ rw_out' = Append(rw_out, Head(rw_pending))
    /\ rw_pending' = Tail(rw_pending)
    /\ UNCHANGED <<rw_pc, rw_page, rw_cols, rw_ymin, rw_ymax>>
    /\ UNCHANGED <<doc, canonVars, kitVars, indexVars, itemVars, fitVars, procVars, columnVars, classVars, wrapVars>>

\* the generator is exhausted
IterRowsEnd ==
    /\ rw_pc = "iter"
    /\ rw_pending = <<>>
    /\ rw_pc' = "done"
    /\ UNCHANGED <<rw_page, rw_cols, rw_ymin, rw_ymax, rw_pending, rw_out>>
    /\ UNCHANGED <<doc, canonVars, kitVars, indexVars, itemVars, fitVars, procVars, columnVars, classVars, wrapVars>>

-----------------------------------------------------------------------------
(* Pages handed to detect_columns and iter_rows *)

Word(x0, x1, y0, y1, txt, blk, ln, wn) ==
    [x0 |-> x0, x1 |-> x1, y0 |-> y0, y1 |-> y1, txt |-> txt, blk |-> blk, ln |-> ln, wn |-> wn]

\* one line of three words, the second a little lower than the others
WordType  == Word(6000, 9000, 10000, 11000, Str_Widget, 1, 1, 0)
WordPromo == Word(21000, 25000, 10004, 11000, Str_Promo, 1, 1, 1)
WordQty   == Word(50000, 50500, 10000, 11000, <<"5">>, 1, 1, 2)
\* a word whose centre is on the promo anchor's left edge, last of the same line
WordEdge  == Word(19000, 21000, 10000, 11000, <<"A">>, 1, 1, 3)
\* a word between the fallback promo boundary and the promo anchor, on a lower line
WordBetween == Word(16000, 18000, 20000, 21000, <<"B">>, 2, 1, 0)
\* a word of another block at the height of the first line
WordBeside == Word(30000, 31000, 10000, 11000, <<"C">>, 3, 1, 0)
\* a word at the height of the column headings
WordTop   == Word(6000, 8000, 1000, 1900, <<"T">>, 0, 1, 0)
\* a word that reaches into the footer margin
WordFoot  == Word(6000, 8000, 75000, 76000, <<"F">>, 4, 1, 0)

PageWords == {WordType, WordPromo, WordQty, WordEdge, WordBetween, WordBeside, WordTop, WordFoot}

\* the words of a page: up to MaxWords different words, in any order
WordLists ==
    UNION {{ws \in [1..n -> PageWords] : \A i, j \in 1..n : ws[i] = ws[j] => i = j} : n \in 0..MaxWords}

InitRows ==
    /\ \E rs \in {NoRect, FoundRect(5000, 3000)} :
       \E rp \in {NoRect, FoundRect(20000, 1500)} :
       \E rq \in {NoRect, FoundRect(45000, 1500)} :
       \E fault \in {"none", "search", "words"} :
       \E ws \in WordLists :
          rw_page = [width |-> 60000, height |-> 79200, rs |-> rs, rp |-> rp, rq |-> rq,
                     search_raises |-> (fault = "search"), words_raise |-> (fault = "words"),
                     words |-> ws]
    /\ rw_pc = "ready" /\ rw_cols = NoCols /\ rw_ymin = 0 /\ rw_ymax = 0
    /\ rw_pending = <<>> /\ rw_out = <<>>

NextRows == DetectColumns \/ IterRowsStart \/ IterRowsYield \/ IterRowsEnd

-----------------------------------------------------------------------------
(* draw_multicolumn_list (lines 850-894); lengths in tenths of a point *)

\* lines 117-118: MARGIN_T = MARGIN_B = 72
MARGIN_T == 720
MARGIN_B == 720

\* page.rect.y1 of a page made by new_page(): the default page is 595 x 842
PAGE_Y1 == 8420

\* line 780-781 with fontsize 10: leading 1.1 at the call of line 1119, 1.15 by default
LINE_H_CALL == 110
LINE_H_DEFAULT == 115

\* lines 869, 893: draw_wrapped_text of the one-line header at fontsize 12 advances y
\* by _line_height(12) = 12 * LEADING
HEADER_ADVANCE == 144

ColumnsIdle ==
    /\ mc_pc = "idle" /\ mc_n = 0 /\ mc_columns = 0 /\ mc_line_h = 0 /\ mc_header = FALSE
    /\ mc_y0 = 0 /\ mc_i = 0 /\ mc_y = 0 /\ mc_page = 0 /\ mc_cells = <<>>

\* lines 857-861
ColumnsEntry(n, y, columns, line_h, header) ==
    /\ mc_pc = "loop" /\ mc_n = n /\ mc_columns = columns /\ mc_line_h = line_h
    /\ mc_header = header /\ mc_y0 = y /\ mc_i = 0 /\ mc_y = y /\ mc_page = 0 /\ mc_cells = <<>>

\* line 864: int((page.rect.y1 - MARGIN_B - y) // line_h), a floor division
RowsFit(y, line_h) == (PAGE_Y1 - MARGIN_B - y) \div line_h

\* a plausible slip at line 872: the columns are forgotten
PerPage_one_column(rows_fit, columns) == rows_fit

\* line 872
PerPage(rows_fit, columns) == rows_fit * columns

\* line 873: len(items[i:i+per_page])
ChunkLen(n, i, per_page) == IF n - i < per_page THEN n - i ELSE per_page

\* lines 875-885: the insert_text calls of one page, r outermost, c innermost; the slot
\* (r, c) shows chunk[r + c*rows_fit]
Cells(rows_fit, columns, chunk_len, first, page) ==
    LET slot(s) == [item |-> first + ((s - 1) \div columns) + ((s - 1) % columns) * rows_fit,
                    page |-> page, row |-> (s - 1) \div columns, col |-> (s - 1) % columns]
    IN  SelectSeq([s \in 1..(rows_fit * columns) |-> slot(s)],
                  LAMBDA cell : cell.item - first < chunk_len)

\* lines 866-869 and 890-893: a new page, y at the top margin, the header if one is given
YOnNewPage(header) == IF header THEN MARGIN_T + HEADER_ADVANCE ELSE MARGIN_T

\* lines 862-893: one pass of "while i < len(items)"
ColumnsPass ==
    /\ mc_pc = "loop"
    /\ mc_i < mc_n
    /\ LET rows_fit == RowsFit(mc_y, mc_line_h)
           per_page == PerPage(rows_fit, mc_columns)
           chunk_len == ChunkLen(mc_n, mc_i, per_page)
       IN  IF rows_fit <= 0
           THEN /\ mc_page' = mc_page + 1
                /\ mc_y' = YOnNewPage(mc_header)
                /\ UNCHANGED <<mc_i, mc_cells>>
           ELSE /\ mc_cells' = mc_cells \o Cells(rows_fit, mc_columns, chunk_len, mc_i, mc_page)
                /\ mc_i' = mc_i + chunk_len
                /\ IF mc_i + chunk_len < mc_n
                   THEN /\ mc_page' = mc_page + 1
                        /\ mc_y' = YOnNewPage(mc_header)
                   ELSE /\ mc_page' = mc_page
                        /\ mc_y' = mc_y + rows_fit * mc_line_h
    /\ UNCHANGED <<mc_pc, mc_n, mc_columns, mc_line_h, mc_header, mc_y0>>
    /\ UNCHANGED <<doc, canonVars, kitVars, indexVars, itemVars, fitVars, procVars, rowVars, classVars, wrapVars>>

\* line 894: return page, y
ColumnsReturn ==
    /\ mc_pc = "loop"
    /\ mc_i >= mc_n
    /\ mc_pc' = "done"
    /\ UNCHANGED <<mc_n, mc_columns, mc_line_h, mc_header, mc_y0, mc_i, mc_y, mc_page, mc_cells>>
    /\ UNCHANGED <<doc, canonVars, kitVars, indexVars, itemVars, fitVars, procVars, rowVars, classVars, wrapVars>>

\* the y the list starts at: the top of a page, and places near the bottom margin where
\* 4, 3, 1, 0 and -1 rows fit
StartYs == {MARGIN_T, 7200, 7350, 7500, 7650, 7800}

InitColumns ==
    \E n \in 0..MaxListItems : \E y \in StartYs : \E columns \in {1, 2, 4} :
    \E line_h \in {LINE_H_CALL, LINE_H_DEFAULT} : \E header \in BOOLEAN :
        ColumnsEntry(n, y, columns, line_h, header)

NextColumns == ColumnsPass \/ ColumnsReturn

-----------------------------------------------------------------------------
(* canon applied repeatedly to one input *)

CanonAlphabet == {" ", "\t", "*", "a", "A"}

RECURSIVE StringsUpTo(_, _)
StringsUpTo(alphabet, n) ==
    IF n = 0 THEN {<<>>}
    ELSE LET shorter == StringsUpTo(alphabet, n - 1)
         IN  shorter \cup {Append(s, c) : s \in {t \in shorter : Len(t) = n - 1}, c \in alphabet}

CanonIdle == canon_in = <<>> /\ canon_out = <<>>

InitCanon ==
    /\ canon_in \in StringsUpTo(CanonAlphabet, MaxStrLen)
    /\ canon_out = <<>>

\* one more application: canon(s), then canon(canon(s)), ...
ApplyCanon ==
    /\ Len(canon_out) < MaxCanonApps
    /\ canon_out' = Append(canon_out,
                           canon(IF canon_out = <<>> THEN canon_in ELSE canon_out[Len(canon_out)]))
    /\ UNCHANGED canon_in
    /\ UNCHANGED <<doc, kitVars, indexVars, itemVars, fitVars, procVars, columnVars, rowVars, classVars, wrapVars>>

NextCanon == ApplyCanon

-----------------------------------------------------------------------------
(* draw_wrapped_text (lines 783-821) and _ellipsize_to_width (lines 839-848); widths in
   thousandths of the font size, heights in tenths of a point *)

\* stands for U+2026, the one-character ellipsis
Ellipsis == "ell"

\* the advance widths of Helvetica that fitz.get_text_length(s, fontname="helv") adds up
GlyphWidth(c) ==
    CASE c = " " -> 278
      [] c = "a" -> 556
      [] c = "W" -> 944
      [] c = Ellipsis -> 1000
      [] OTHER -> 556

\* lines 790, 840-845: fitz.get_text_length(s, fontname="helv", fontsize=fontsize)
RECURSIVE TextLength(_)
TextLength(s) == IF s = <<>> THEN 0 ELSE GlyphWidth(Head(s)) + TextLength(Tail(s))

\* lines 845-846: while t and get_text_length(t + "...") > max_width: t = t[:-1]
RECURSIVE TrimToFit(_, _)
TrimToFit(t, max_width) ==
    IF t # <<>> /\ TextLength(Append(t, Ellipsis)) > max_width
    THEN TrimToFit(SubSeq(t, 1, Len(t) - 1), max_width)
    ELSE t

\* lines 839-848: _ellipsize_to_width(text, max_width, fontsize)
ellipsize_to_width(text, max_width) ==
    IF TextLength(text) <= max_width THEN text
    ELSE IF TextLength(<<Ellipsis>>) > max_width THEN <<>>
    ELSE Append(TrimToFit(text, max_width), Ellipsis)

\* line 787: para.split(" ")
RECURSIVE SplitSpacesFrom(_, _)
SplitSpacesFrom(s, cur) ==
    IF s = <<>> THEN <<cur>>
    ELSE IF Head(s) = " " THEN <<cur>> \o SplitSpacesFrom(Tail(s), <<>>)
         ELSE SplitSpacesFrom(Tail(s), Append(cur, Head(s)))

SplitSpaces(s) == SplitSpacesFrom(s, <<>>)

\* line 785: str(text).splitlines() if text else [""]
Paragraphs(text) == IF text # <<>> THEN SplitLines(text) ELSE << <<>> >>

\* line 781 with fontsize 12 and LEADING 1.2 (line 119): 14.4 points
WRAP_LINE_H == 144

WrapIdle ==
    /\ wr_pc = "idle" /\ wr_max = 0 /\ wr_paras = <<>> /\ wr_words = <<>> /\ wr_line = <<>>
    /\ wr_y = 0 /\ wr_page = 0 /\ wr_drawn = <<>> /\ wr_popped = <<>>

\* lines 804-809 and 811-816: a new page when the line would pass the bottom margin,
\* then page.insert_text((x, y), line) and y += line height
DrawLine(line) ==
    LET brk == wr_y > PAGE_Y1 - MARGIN_B - WRAP_LINE_H
        pg  == IF brk THEN wr_page + 1 ELSE wr_page
        y0  == IF brk THEN MARGIN_T ELSE wr_y
    IN  /\ wr_drawn' = Append(wr_drawn, [text |-> line, page |-> pg, y |-> y0])
        /\ wr_page' = pg
        /\ wr_y' = y0 + WRAP_LINE_H

\* lines 786-788: the next paragraph is split into words
WrapPara ==
    /\ wr_pc = "para"
    /\ wr_paras # <<>>
    /\ wr_words' = SplitSpaces(Head(wr_paras))
    /\ wr_line' = <<>>
    /\ wr_pc' = "words"
    /\ UNCHANGED <<wr_max, wr_paras, wr_y, wr_page, wr_drawn, wr_popped>>
    /\ UNCHANGED <<doc, canonVars, kitVars, indexVars, itemVars, fitVars, procVars, columnVars, rowVars, classVars>>

\* lines 789-810: one pass of "while words"
WrapWord ==
    /\ wr_pc = "words"
    /\ wr_words # <<>>
    /\ LET peek    == Strip(wr_line \o (IF wr_line # <<>> THEN <<" ">> ELSE <<>>) \o Head(wr_words))
           narrow  == TextLength(peek) <= wr_max
           forced  == Head(wr_words)
           trimmed == ellipsize_to_width(forced, wr_max)
           pops    == narrow \/ wr_line = <<>>
           rest    == IF pops THEN Tail(wr_words) ELSE wr_words
           line    == IF narrow THEN peek
                      ELSE IF wr_line = <<>> THEN (IF trimmed # <<>> THEN trimmed ELSE forced)
                      ELSE wr_line
       IN  /\ wr_words' = rest
           /\ wr_popped' = IF pops THEN Append(wr_popped, Head(wr_words)) ELSE wr_popped
           /\ IF narrow /\ rest # <<>>
              THEN /\ wr_line' = line
                   /\ UNCHANGED <<wr_y, wr_page, wr_drawn>>
              ELSE /\ DrawLine(line)
                   /\ wr_line' = <<>>
    /\ UNCHANGED <<wr_pc, wr_max, wr_paras>>
    /\ UNCHANGED <<doc, canonVars, kitVars, indexVars, itemVars, fitVars, procVars, columnVars, rowVars, classVars>>

\* lines 811-816: the words of the paragraph are used up; what is left in line is drawn
WrapParaEnd ==
    /\ wr_pc = "words"
    /\ wr_words = <<>>
    /\ IF wr_line # <<>>
       THEN DrawLine(wr_line)
       ELSE UNCHANGED <<wr_y, wr_page, wr_drawn>>
    /\ wr_paras' = Tail(wr_paras)
    /\ wr_pc' = "para"
    /\ UNCHANGED <<wr_max, wr_words, wr_line, wr_popped>>
    /\ UNCHANGED <<doc, canonVars, kitVars, indexVars, itemVars, fitVars, procVars, columnVars, rowVars, classVars>>

\* line 817: return page, y
WrapReturn ==
    /\ wr_pc = "para"
    /\ wr_paras = <<>>
    /\ wr_pc' = "done"
    /\ UNCHANGED <<wr_max, wr_paras, wr_words, wr_line, wr_y, wr_page, wr_drawn, wr_popped>>
    /\ UNCHANGED <<doc, canonVars, kitVars, indexVars, itemVars, fitVars, procVars, columnVars, rowVars, classVars>>

WrapAlphabet == {"a", "W", " ", "\n"}

\* max_width: less than the ellipsis, the ellipsis, and room for two to five letters
WrapWidths == {500, 1000, 1600, 2000, 3000}

\* the text, the width and the starting height of a call: the top of a page, or one
\* line above the bottom margin
InitWrap ==
    /\ \E text \in StringsUpTo(WrapAlphabet, MaxTextLen) : wr_paras = Paragraphs(text)
    /\ wr_max \in WrapWidths
    /\ wr_y \in {MARGIN_T, 7500}
    /\ wr_pc = "para" /\ wr_words = <<>> /\ wr_line = <<>>
    /\ wr_page = 0 /\ wr_drawn = <<>> /\ wr_popped = <<>>

NextWrap == WrapPara \/ WrapWord \/ WrapParaEnd \/ WrapReturn

-----------------------------------------------------------------------------
(* Specifications *)

vars == <<doc, canonVars, kitVars, indexVars, itemVars, fitVars, procVars, columnVars, rowVars, classVars,
          wrapVars>>

NoDoc == doc = <<>>

StartCanon == InitCanon /\ NoDoc /\ KitsIdle /\ IndexIdle /\ ItemsIdle /\ FitIdle /\ ProcIdle /\ ColumnsIdle /\ RowsIdle /\ ClassIdle /\ WrapIdle
SpecCanon == StartCanon /\ [][NextCanon]_vars

StartKits == InitKits /\ NoDoc /\ CanonIdle /\ IndexIdle /\ ItemsIdle /\ FitIdle /\ ProcIdle /\ ColumnsIdle /\ RowsIdle /\ ClassIdle /\ WrapIdle
SpecKits == StartKits /\ [][NextKits]_vars

StartKitsMany == InitKitsMany /\ NoDoc /\ CanonIdle /\ IndexIdle /\ ItemsIdle /\ FitIdle /\ ProcIdle /\ ColumnsIdle /\ RowsIdle /\ ClassIdle /\ WrapIdle
SpecKitsMany == StartKitsMany /\ [][NextKits]_vars

StartIndex == InitIndex /\ CanonIdle /\ KitsIdle /\ ItemsIdle /\ FitIdle /\ ProcIdle /\ ColumnsIdle /\ RowsIdle /\ ClassIdle /\ WrapIdle
SpecIndex == StartIndex /\ [][NextIndex]_vars

StartItems == InitItems /\ CanonIdle /\ KitsIdle /\ IndexIdle /\ FitIdle /\ ProcIdle /\ ColumnsIdle /\ RowsIdle /\ ClassIdle /\ WrapIdle
SpecItems == StartItems /\ [][NextItems]_vars

StartFit == InitFit /\ NoDoc /\ CanonIdle /\ KitsIdle /\ IndexIdle /\ ItemsIdle /\ ProcIdle /\ ColumnsIdle /\ RowsIdle /\ ClassIdle /\ WrapIdle
SpecFit == StartFit /\ [][NextFit]_vars

StartColumns == InitColumns /\ NoDoc /\ CanonIdle /\ KitsIdle /\ IndexIdle /\ ItemsIdle /\ FitIdle /\ ProcIdle /\ RowsIdle /\ ClassIdle /\ WrapIdle
SpecColumns == StartColumns /\ [][NextColumns]_vars

StartRows == InitRows /\ NoDoc /\ CanonIdle /\ KitsIdle /\ IndexIdle /\ ItemsIdle /\ FitIdle /\ ProcIdle /\ ColumnsIdle /\ ClassIdle /\ WrapIdle
SpecRows == StartRows /\ [][NextRows]_vars

StartClassify == InitClassify /\ NoDoc /\ CanonIdle /\ KitsIdle /\ IndexIdle /\ ItemsIdle /\ FitIdle /\ ProcIdle /\ ColumnsIdle /\ RowsIdle /\ WrapIdle
SpecClassify == StartClassify /\ [][NextClassify]_vars

StartProc == InitProc /\ CanonIdle /\ KitsIdle /\ IndexIdle /\ ItemsIdle /\ FitIdle /\ ColumnsIdle /\ RowsIdle /\ ClassIdle /\ WrapIdle
SpecProc == StartProc /\ [][NextProc]_vars

StartWrap == InitWrap /\ NoDoc /\ CanonIdle /\ KitsIdle /\ IndexIdle /\ ItemsIdle /\ FitIdle /\ ProcIdle /\ ColumnsIdle /\ RowsIdle /\ ClassIdle
SpecWrap == StartWrap /\ [][NextWrap]_vars
SpecWrapFair == SpecWrap /\ WF_vars(NextWrap)

-----------------------------------------------------------------------------
(* C1: canon is idempotent: for every input s, canon(canon(s)) = canon(s).  *)
(* Stated on the harness: once canon has been applied twice, the second    *)
(* result equals the first.                                                *)
C1_CanonIdempotent ==
    Len(canon_out) >= 2 => canon_out[2] = canon_out[1]

-----------------------------------------------------------------------------
\* two stores, each with the single item (Shelf Wobbler, Widget Promo, 5), grouped with
\* min_stores = 2, and group_wobbler_kits has returned
C2_Scenario ==
    /\ gk_pc = "done"
    /\ gk_min = 2
    /\ Len(gk_stores) = 2
    /\ \A k \in 1..2 : gk_stores[k].items = <<Item(S_SHELF_WOBBLER, Str_Widget_Promo, 5)>>

(* C2 as stated: in that scenario group_wobbler_kits returns exactly one   *)
(* kit, with store_count 2 and the item list [{promo: Widget Promo,        *)
(* qty: 5}].                                                               *)
C2_OneKitOfTwoStores ==
    C2_Scenario =>
        /\ Len(kits) = 1
        /\ kits[1].store_count = 2
        /\ kits[1].items = <<[promo |-> Str_Widget_Promo, qty |-> 5]>>

(* C2 as amended: in that scenario group_wobbler_kits returns no kit and   *)
(* an empty store-id lookup, because a store with a single pair is left    *)
(* out of the grouping.                                                    *)
C2_NoKitForSingleItemStores ==
    C2_Scenario => (kits = <<>> /\ DOMAIN kit_by_store_id = {})

C2_Witness ==
    C2_Scenario /\ gk_stores[1].store_id # gk_stores[2].store_id

-----------------------------------------------------------------------------
\* the multiset of the elements of a sequence
BagOfSeq(s) == [x \in Range(s) |-> Cardinality({k \in 1..Len(s) : s[k] = x})]

(* C3: grouping is insensitive to item order: once group_wobbler_kits has  *)
(* scanned the stores, two stores with the same multiset of (canonical     *)
(* promo, qty) pairs have the same signature and were placed in the same   *)
(* group (stores with at most one pair are placed in no group at all), and *)
(* two stores with different multisets were never placed in the same group.*)
C3_OrderInsensitive ==
    gk_pc = "done" =>
    LET pairs == [k \in 1..Len(gk_placed) |-> WobPairs(gk_stores[k].items)]
        bag   == [k \in 1..Len(gk_placed) |-> BagOfSeq(pairs[k])]
        entry == [k \in 1..Len(gk_placed) |-> <<gk_stores[k].store_id, gk_stores[k].store_name>>]
    IN  \A i \in 1..Len(gk_placed) : \A j \in i..Len(gk_placed) :
            /\ bag[i] = bag[j] =>
                  /\ gk_placed[i] = gk_placed[j]
                  /\ Signature(pairs[i]) = Signature(pairs[j])
                  /\ gk_placed[i] # 0 =>
                        /\ entry[i] \in Range(combos[gk_placed[i]].store_list)
                        /\ entry[j] \in Range(combos[gk_placed[i]].store_list)
            /\ bag[i] # bag[j] => ~(gk_placed[i] = gk_placed[j] /\ gk_placed[i] # 0)

\* two stores listing the same pairs in different orders ended in one group
C3_Witness ==
    /\ gk_pc = "done"
    /\ \E i, j \in 1..Len(gk_placed) :
          /\ gk_placed[i] # 0
          /\ gk_placed[i] = gk_placed[j]
          /\ WobPairs(gk_stores[i].items) # WobPairs(gk_stores[j].items)

-----------------------------------------------------------------------------
\* the combos entry has become a returned kit
C4_IsKit(entry) ==
    \E k \in 1..Len(kits) :
        /\ kits[k].store_ids = [n \in 1..Len(entry.store_list) |-> entry.store_list[n][1]]
        /\ kits[k].store_count = Len(entry.store_list)

(* C4: kit threshold: once group_wobbler_kits has returned, a signature    *)
(* group is among the kits iff its number of stores is at least            *)
(* min_stores (here 10: a group of 9 is left out, a group of 10 is kept),  *)
(* and every returned kit has store_count >= min_stores.                   *)
C4_Threshold ==
    gk_pc = "done" =>
        /\ \A c \in 1..Len(combos) :
              (Len(combos[c].store_list) >= gk_min) <=> C4_IsKit(combos[c])
        /\ \A k \in 1..Len(kits) : kits[k].store_count >= gk_min
        /\ Len(kits) = Cardinality({c \in 1..Len(combos) : Len(combos[c].store_list) >= gk_min})

\* a group of exactly 10 stores is a kit while another, smaller group is not
C4_Witness ==
    /\ gk_pc = "done"
    /\ gk_min = 10
    /\ \E c, d \in 1..Len(combos) :
          /\ Len(combos[c].store_list) = 10 /\ C4_IsKit(combos[c])
          /\ Len(combos[d].store_list) < 10 /\ ~C4_IsKit(combos[d])

-----------------------------------------------------------------------------
\* page i (0-based) loads, its text is extracted, and is_header_page says is_header
C5_PageIs(i, is_header) ==
    /\ doc[i + 1].loads
    /\ ~doc[i + 1].text_raises
    /\ is_header_page(doc[i + 1].text) = is_header

\* index_stores has returned for one header page followed by N non-header pages
C5_Scenario ==
    /\ ix_pc = "done"
    /\ Len(doc) >= 1
    /\ C5_PageIs(0, TRUE)
    /\ \A i \in 1..(Len(doc) - 1) : C5_PageIs(i, FALSE)

C5_NonBlank == SelectSeq([k \in 1..Len(doc) |-> k - 1],
                         LAMBDA i : \E c \in Range(doc[i + 1].text) : ~IsSpace(c))

-----------------------------------------------------------------------------
C6_Increasing(pages) == \A k \in 1..(Len(pages) - 1) : pages[k] < pages[k + 1]

C6_Skipped(i) ==
    doc[i + 1].text_raises \/ \A c \in Range(doc[i + 1].text) : IsSpace(c)

-----------------------------------------------------------------------------
(* C7 as stated: every ItemRecord emitted by extract_items_from_pages has  *)
(* qty >= 1.                                                               *)
C7_QtyPositive ==
    \A k \in 1..Len(items) : items[k].qty >= 1

(* C7 as amended: every ItemRecord emitted by extract_items_from_pages     *)
(* has a qty that is a non-negative integer (qty >= 0; a row whose         *)
(* quantity text is "0" is emitted with qty 0).                            *)
C7_QtyNonNegative ==
    \A k \in 1..Len(items) : items[k].qty \in Nat

\* a call has returned an item with qty 0
C7_Witness ==
    /\ ex_pc = "done"
    /\ \E k \in 1..Len(items) : items[k].qty = 0

-----------------------------------------------------------------------------
(* C8: item extraction keeps no state between calls: whenever a call of    *)
(* extract_items_from_pages for a store has returned, its item list is     *)
(* the one the first call for that store returned, whatever calls were     *)
(* made in between.                                                        *)
C8_SameItemsEachCall ==
    (ex_pc = "done" /\ ex_store \in DOMAIN ex_result) => items = ex_result[ex_store]

\* a store is extracted again, after another store, and yields items
C8_Witness ==
    /\ ex_pc = "done"
    /\ ex_again
    /\ ex_prev # 0 /\ ex_prev # ex_store
    /\ items # <<>>

-----------------------------------------------------------------------------
\* the store has an item and the canonical type of each of its items is a canonical
\* will_fit entry
C9_ShouldFit(s) ==
    /\ s.items # <<>>
    /\ \A k \in 1..Len(s.items) :
          \E w \in 1..Len(will_fit) : canon(s.items[k].type) = canon(will_fit[w])

(* C9: envelope fit: once compute_envelope_fit has returned, a store has   *)
(* fits_envelope true iff it has at least one item and the canonical       *)
(* sign-type of every item is in the canonicalized will_fit set; fits      *)
(* holds the stores with the flag, not_fits the others, each store in      *)
(* exactly one of the two lists.                                           *)
C9_EnvelopeFit ==
    fit_pc = "done" =>
        /\ \A k \in 1..Len(fit_stores) : fit_stores[k].fits_envelope <=> C9_ShouldFit(fit_stores[k])
        /\ Len(fits) + Len(not_fits) = Len(fit_stores)
        /\ \A k \in 1..Len(fit_stores) :
              /\ (fit_stores[k] \in Range(fits)) <=> C9_ShouldFit(fit_stores[k])
              /\ (fit_stores[k] \in Range(not_fits)) <=> ~C9_ShouldFit(fit_stores[k])

\* one store fits, one has an item type outside will_fit beside one inside it
C9_Witness ==
    /\ fit_pc = "done"
    /\ fits # <<>>
    /\ \E k \in 1..Len(not_fits) :
          /\ Len(not_fits[k].items) >= 2
          /\ \E j \in 1..Len(not_fits[k].items) :
                \E w \in 1..Len(will_fit) : canon(not_fits[k].items[j].type) = canon(will_fit[w])


-----------------------------------------------------------------------------
(* C10 as stated: any exception raised in the run other than a per-page    *)
(* extraction failure, for example one raised inside store segmentation,   *)
(* item extraction or kit grouping, reaches the top-level handler, which   *)
(* shows the fatal-error message, and no output file is saved.             *)

C10_CaughtInside == {"index_stores", "extract_items_from_pages", "group_wobbler_kits"}

C10_Fatal == \E k \in 1..Len(msgs) : msgs[k] = "fatal"

-----------------------------------------------------------------------------
\* the run is over, the document opened, and no store has an item
C11_NoItems ==
    /\ pr_pc = "end"
    /\ "open" \notin raised
    /\ \A k \in 1..Len(stores) : stores[k].items = <<>>

(* C11: when no store of the document yields an item, the run shows the    *)
(* stop message and returns: no output page is produced, no file is saved, *)
(* the completion message (and any other message) is not shown; and the    *)
(* stop message is shown in no other case.                                 *)
C11_StopWithoutOutput ==
    /\ C11_NoItems => (msgs = <<"stop">> /\ out = <<>> /\ ~saved)
    /\ (\E k \in 1..Len(msgs) : msgs[k] = "stop") => C11_NoItems

\* a document with two stores, none with an item, has stopped the run
C11_Witness ==
    /\ C11_NoItems
    /\ Len(stores) >= 2
    /\ msgs = <<"stop">>


-----------------------------------------------------------------------------
\* the loop of index_stores is at a page that loads and whose text extraction raises
C12_AtFailingPage ==
    /\ ix_pc = "loop"
    /\ ix_i < Len(doc)
    /\ doc[ix_i + 1].loads
    /\ doc[ix_i + 1].text_raises

\* no page list, of a returned store or of the open one, holds a page whose text
\* extraction raised
C12_InNoStore ==
    /\ \A s \in 1..Len(stores) : \A k \in 1..Len(stores[s].pages) :
          ~doc[stores[s].pages[k] + 1].text_raises
    /\ current.open => \A k \in 1..Len(current.pages) : ~doc[current.pages[k] + 1].text_raises

(* C12: a page whose text extraction raises during index_stores is added   *)
(* to no StoreRecord; the pass over it leaves the stores, the open store,  *)
(* the accumulated text and the metadata unchanged and moves the loop to   *)
(* the next page, so the later pages are processed from the state the      *)
(* loop had before the failing page.                                       *)
C12_FailureIsLocal ==
    /\ []C12_InNoStore
    /\ [][C12_AtFailingPage =>
             /\ stores' = stores /\ current' = current /\ accum' = accum /\ meta' = meta
             /\ ix_i' = ix_i + 1
             /\ ix_pc' = "loop"]_vars

\* a store that was open at a failing page has taken a later page
C12_Witness ==
    /\ ix_pc = "done"
    /\ \E s \in 1..Len(stores) : \E i \in 1..Len(doc) :
          /\ doc[i].text_raises
          /\ stores[s].pages[1] < i - 1
          /\ stores[s].pages[Len(stores[s].pages)] > i - 1


-----------------------------------------------------------------------------
\* the number of items of the list drawn on page p
C13_ItemsOn(p) == Cardinality({k \in 1..Len(mc_cells) : mc_cells[k].page = p})

(* C13 as stated: whenever draw_multicolumn_list breaks to a continuation  *)
(* page, that page never holds exactly one item of the list while the page *)
(* before it holds more than one.                                          *)
C13_NoOrphan ==
    mc_pc = "done" =>
        \A p \in 1..mc_page : ~(C13_ItemsOn(p) = 1 /\ C13_ItemsOn(p - 1) > 1)

-----------------------------------------------------------------------------
\* the list fits the page the call starts on
C14_FitsStartPage == mc_n <= RowsFit(mc_y0, mc_line_h) * mc_columns

(* C14: when the number of items is at most rows_fit x columns for the     *)
(* page draw_multicolumn_list starts on, every item is drawn exactly once, *)
(* on that page and in a slot of its own, and no new page is created.      *)
C14_OnePage ==
    (mc_pc = "done" /\ C14_FitsStartPage) =>
        /\ mc_page = 0
        /\ \A item \in 0..(mc_n - 1) :
              Cardinality({k \in 1..Len(mc_cells) : mc_cells[k].item = item}) = 1
        /\ \A k \in 1..Len(mc_cells) :
              /\ mc_cells[k].page = 0
              /\ mc_cells[k].item \in 0..(mc_n - 1)
              /\ mc_cells[k].row \in 0..(RowsFit(mc_y0, mc_line_h) - 1)
              /\ mc_cells[k].col \in 0..(mc_columns - 1)
        /\ \A j, k \in 1..Len(mc_cells) :
              (mc_cells[j].row = mc_cells[k].row /\ mc_cells[j].col = mc_cells[k].col) => j = k

\* 9 items drawn on a page that fits 4 rows of 4 columns
C14_Witness ==
    /\ mc_pc = "done"
    /\ mc_n = 9
    /\ mc_columns = 4
    /\ RowsFit(mc_y0, mc_line_h) = 4
    /\ Len(mc_cells) = 9


-----------------------------------------------------------------------------
\* the anchors search_for found on the page
C15_Found == {r \in {rw_page.rs, rw_page.rp, rw_page.rq} : r.found}

(* C15 as stated: detect_columns returns header_bottom = 0 when none of    *)
(* the three header anchors is found on the page, and otherwise the        *)
(* largest bottom y among the anchors found; the fallback column           *)
(* boundaries do not contribute to header_bottom.                          *)
C15_HeaderBottomOfFoundAnchors ==
    rw_pc = "detected" =>
        IF C15_Found = {}
        THEN rw_cols.header_bottom = 0
        ELSE \E r \in C15_Found :
                /\ rw_cols.header_bottom = r.y1
                /\ \A q \in C15_Found : q.y1 <= r.y1

-----------------------------------------------------------------------------
\* the number of times word w is in bucket b of a yielded row
C16_Times(w, b) ==
    Cardinality({<<k, j>> \in (1..Len(rw_out)) \X (1..MaxWords + 1) :
                    j <= Len(rw_out[k].words[b]) /\ rw_out[k].words[b][j] = w})

\* the bucket the claim gives word w: its horizontal centre against the two boundaries
C16_BucketOf(w) ==
    LET cols == detect_columns(rw_page) IN
    IF w.x0 + w.x1 < 2 * cols.x_promo_left THEN "type"
    ELSE IF w.x0 + w.x1 < 2 * cols.x_qty_left THEN "promo" ELSE "qty"

(* C16: once iter_rows is exhausted, every word of the page inside the     *)
(* band [y_min, y_max] is in exactly one bucket of exactly one yielded     *)
(* row, the bucket its horizontal centre selects against x_promo_left and  *)
(* x_qty_left; a word outside the band is in no row; each text of a row is *)
(* its bucket's words joined by blanks; and the rows come in ascending     *)
(* order of their rounded y-start.                                         *)
C16_RowReconstruction ==
    (rw_pc = "done" /\ ~rw_page.words_raise) =>
        /\ \A i \in 1..Len(rw_page.words) :
              LET w == rw_page.words[i] IN
              IF w.y0 >= rw_ymin /\ w.y1 <= rw_ymax
              THEN \A b \in {"type", "promo", "qty"} :
                      C16_Times(w, b) = (IF b = C16_BucketOf(w) THEN 1 ELSE 0)
              ELSE \A b \in {"type", "promo", "qty"} : C16_Times(w, b) = 0
        /\ \A k \in 1..Len(rw_out) :
              /\ rw_out[k].type_text = Strip(JoinSpace(TextsOf(rw_out[k].words["type"])))
              /\ rw_out[k].promo_text = Strip(JoinSpace(TextsOf(rw_out[k].words["promo"])))
              /\ rw_out[k].qty_text = Strip(JoinSpace(TextsOf(rw_out[k].words["qty"])))
        /\ \A k \in 1..(Len(rw_out) - 1) : rw_out[k].y <= rw_out[k + 1].y

\* two rows were yielded in the opposite of the order their words are listed in, and a
\* third word lies outside the band
C16_Witness ==
    /\ rw_pc = "done"
    /\ ~rw_page.words_raise
    /\ Len(rw_out) = 2
    /\ rw_out[1].y < rw_out[2].y
    /\ Len(rw_page.words) = 3
    /\ \E b \in {"type", "promo", "qty"} : C16_Times(rw_page.words[1], b) = 1
    /\ \E b \in {"type", "promo", "qty"} : rw_out[2].words[b] = <<rw_page.words[1]>>
    /\ rw_page.words[3].y1 > rw_ymax


-----------------------------------------------------------------------------
\* the label the claim gives the returned flags: prefix, blank, suffix
C17_Label(flags) ==
    LET prefix == IF flags.is_alcohol THEN <<"A","l","c","o","h","o","l"," ">>
                  ELSE IF flags.is_non_alcohol
                       THEN <<"N","o","n","-","A","l","c","o","h","o","l"," ">>
                       ELSE <<>>
        suffix == IF flags.is_counter /\ flags.is_shipper
                  THEN <<"C","o","u","n","t","e","r"," ","+"," ","S","h","i","p","p","e","r">>
                  ELSE IF flags.is_counter THEN <<"C","o","u","n","t","e","r">>
                  ELSE IF flags.is_shipper THEN <<"S","h","i","p","p","e","r">>
                  ELSE <<"N","o"," ","C","o","u","n","t","e","r","/","S","h","i","p","p","e","r">>
    IN  prefix \o suffix

(* C17: the store_type classify_store returns is determined by the four    *)
(* flags it returns: prefix Alcohol if is_alcohol, else Non-Alcohol if     *)
(* is_non_alcohol (never both), else none; suffix by is_counter and        *)
(* is_shipper; it is one of the 12 non-empty labels of STORE_TYPE_ORDER,   *)
(* so the rank of the store is never the default 999.                      *)
C17_TypeFromFlags ==
    cl_pc = "done" =>
        /\ cl_out.store_type = C17_Label(cl_out)
        /\ ~(cl_out.is_alcohol /\ cl_out.is_non_alcohol)
        /\ \E k \in 1..12 : STORE_TYPE_ORDER[k] = cl_out.store_type
        /\ cl_out.store_type # <<>>
        /\ StoreTypeRank(cl_out.store_type) \in 0..11
        /\ StoreTypeRank(cl_out.store_type) # 999

\* a text with both wobbler markers and the counter marker is an Alcohol Counter store
C17_Witness ==
    /\ cl_pc = "done"
    /\ Contains(cl_text, KIT_NONALC)
    /\ Contains(cl_text, KIT_ALC)
    /\ cl_out.is_alcohol /\ ~cl_out.is_non_alcohol /\ cl_out.is_counter /\ ~cl_out.is_shipper
    /\ cl_out.store_type = <<"A","l","c","o","h","o","l"," ","C","o","u","n","t","e","r">>

-----------------------------------------------------------------------------
(* C18: kit labels and the order of the returned list *)

\* the signature a kit was built from, recovered from its displayed items
C18_KitSig(kit) ==
    [k \in 1..Len(kit.items) |-> <<canon(kit.items[k].promo), kit.items[k].qty>>]

\* the position of the first store of the scan whose signature is sig
C18_FirstStore(sig) ==
    LET at == {i \in 1..Len(gk_stores) :
                  LET wob == WobPairs(gk_stores[i].items)
                  IN  Len(wob) > 1 /\ SortPairs(wob) = sig}
    IN  CHOOSE i \in at : \A j \in at : i <= j

\* the number a kit is labelled with, 0 when its name is none of "1".."K"
C18_LabelOf(kit) ==
    IF \E j \in 1..Len(kits) : kit.kit_name = DecStr(j)
    THEN CHOOSE j \in 1..Len(kits) : kit.kit_name = DecStr(j)
    ELSE 0

\* C18: when group_wobbler_kits returns K kits, their labels are exactly "1".."K",
\* each used once; a kit with a smaller label has a signature that was first met
\* earlier in the scan of the stores; and the returned list is in non-increasing
\* store_count, kits of equal store_count being in label order.
C18_LabelsAndOrder ==
    gk_pc = "done" =>
        LET K     == Len(kits)
            label == [k \in 1..K |-> C18_LabelOf(kits[k])]
            first == [k \in 1..K |-> C18_FirstStore(C18_KitSig(kits[k]))]
        IN  /\ {label[k] : k \in 1..K} = 1..K
            /\ \A k, l \in 1..K :
                   label[k] < label[l] => first[k] < first[l]
            /\ \A k, l \in 1..K :
                   k < l =>
                      \/ kits[k].store_count > kits[l].store_count
                      \/ /\ kits[k].store_count = kits[l].store_count
                         /\ label[k] < label[l]

\* two kits are returned, and the one labelled "2" comes first because more stores
\* share its signature
C18_Witness ==
    /\ gk_pc = "done"
    /\ Len(kits) = 2
    /\ kits[1].kit_name = DecStr(2)
    /\ kits[2].kit_name = DecStr(1)
    /\ kits[1].store_count > kits[2].store_count

-----------------------------------------------------------------------------
(* C19: who can be a member of a kit *)

\* the number of items of a store that are Shelf Wobblers with a promo that is not
\* predetermined; each such item stands for one (promo, qty) pair
C19_PairCount(s) ==
    Cardinality({k \in 1..Len(s.items) :
                    /\ canon(s.items[k].type) = canon(S_SHELF_WOBBLER)
                    /\ canon(s.items[k].promo) \notin PREDETERMINED_WOBBLERS_CANON})

\* the ids of the stores the scan appended to the c-th entry of combos, in scan order
C19_MemberIds(c) ==
    LET at == SelectSeq([i \in 1..Len(gk_stores) |-> i], LAMBDA i : gk_placed[i] = c)
    IN  [k \in 1..Len(at) |-> gk_stores[at[k]].store_id]

\* C19: when group_wobbler_kits returns, a store with at most one non-predetermined
\* Shelf Wobbler pair was appended to no signature's store list; the members of
\* every returned kit are the stores appended to one signature, each with two or
\* more such pairs; and every returned kit lists at least two items, none of them
\* with a predetermined wobbler promo.
C19_NoKitForFewPairs ==
    gk_pc = "done" =>
        /\ \A i \in 1..Len(gk_stores) :
               C19_PairCount(gk_stores[i]) <= 1 => gk_placed[i] = 0
        /\ \A k \in 1..Len(kits) :
               /\ \E c \in 1..Len(combos) :
                      /\ kits[k].store_ids = C19_MemberIds(c)
                      /\ kits[k].store_count = Len(C19_MemberIds(c))
                      /\ \A i \in 1..Len(gk_stores) :
                             gk_placed[i] = c => C19_PairCount(gk_stores[i]) >= 2
               /\ Len(kits[k].items) >= 2
               /\ \A j \in 1..Len(kits[k].items) :
                      ~is_predetermined_wobbler(kits[k].items[j].promo)

\* with threshold 1 a kit is returned, and a store whose only other Shelf Wobbler
\* is a predetermined one is in no kit
C19_Witness ==
    /\ gk_pc = "done"
    /\ gk_min = 1
    /\ kits # <<>>
    /\ \E i \in 1..Len(gk_stores) :
           /\ C19_PairCount(gk_stores[i]) = 1
           /\ Len(gk_stores[i].items) = 2
           /\ gk_placed[i] = 0
           /\ \A k \in 1..Len(kits) :
                  \A j \in 1..Len(kits[k].store_ids) :
                     kits[k].store_ids[j] # gk_stores[i].store_id

-----------------------------------------------------------------------------
(* C20: the "Sign Type Total" row ends a section *)

\* the loop of extract_items_from_pages is about to handle a row
C20_AtRow ==
    /\ ex_pc = "rows"
    /\ ex_p <= Len(ex_pages)
    /\ ex_r <= Len(doc[ex_pages[ex_p] + 1].rows)

\* the rows of the first n pages of the call, in the order the loop meets them
RECURSIVE C20_RowsOfPages(_)
C20_RowsOfPages(n) ==
    IF n = 0 THEN <<>> ELSE C20_RowsOfPages(n - 1) \o doc[ex_pages[n] + 1].rows

\* the rows of the call up to and including the one about to be handled
C20_Scanned ==
    C20_RowsOfPages(ex_p - 1) \o SubSeq(doc[ex_pages[ex_p] + 1].rows, 1, ex_r)

\* the row is a section terminator
C20_IsTerminator(row) ==
    \E p \in 1..(Len(row.type_text) + Len(row.promo_text) + 1) :
        MatchAt(Strip(row.type_text) \o <<" ">> \o Strip(row.promo_text), p,
                Str_Sign_Type_Total)

\* the promo an item gets when it is emitted at the last row of rows and the
\* buffered fragments are those of the rows from position a on
C20_PromoFrom(rows, a) ==
    LET before == SelectSeq(SubSeq(rows, a, Len(rows) - 1),
                            LAMBDA r : /\ Strip(r.promo_text) # <<>>
                                       /\ ~LooksLikeUrl(Strip(r.promo_text)))
        parts  == [k \in 1..Len(before) |-> Strip(before[k].promo_text)]
        pr     == Strip(rows[Len(rows)].promo_text)
    IN  Strip(JoinSpace(IF pr = <<>> THEN parts ELSE Append(parts, pr)))

\* what C20 says of one pass of the row loop
C20_Pass ==
    C20_AtRow =>
        LET scanned == C20_Scanned
            n       == Len(scanned)
            ends    == {j \in 1..n : C20_IsTerminator(scanned[j])}
        IN  /\ n \in ends =>
                   /\ items' = items
                   /\ last_type' = <<>>
                   /\ promo_buf' = <<>>
            /\ (items' # items /\ ends # {}) =>
                   LET last_end == CHOOSE j \in ends : \A i \in ends : i <= j
                   IN  /\ \E j \in (last_end + 1)..n : Strip(scanned[j].type_text) # <<>>
                       /\ Len(items') = Len(items) + 1
                       /\ \E a \in (last_end + 1)..n :
                              items'[Len(items')].promo = C20_PromoFrom(scanned, a)

\* C20: a row whose stripped type and promo text, joined by a blank, contain
\* "Sign Type Total" emits no item and leaves last_type and promo_buf empty; an
\* item emitted after such a row is emitted only once a row after the latest such
\* row had a non-empty type_text, and its promo is made of promo texts of rows
\* after that row only.
C20_TerminatorEndsSection == [][C20_Pass]_vars

\* a call has handled a fragment row, then a terminator whose text is split between
\* type and promo, then an item row: the item's promo is that of the item row alone
C20_Witness ==
    /\ ex_pc = "done"
    /\ C20_RowsOfPages(Len(ex_pages)) = <<RowFrag, RowSplit, RowItem>>
    /\ items = <<Item(S_SHELF_WOBBLER, Str_Widget_Promo, 5)>>

-----------------------------------------------------------------------------
(* C21: which rows emit an item, and what the item holds *)

\* the most recent non-empty type_text among the first j rows that follows the
\* latest terminator among them; <<>> when there is none
C21_TypeAt(rows, j) ==
    LET ends  == {i \in 1..j : C20_IsTerminator(rows[i])}
        from  == IF ends = {} THEN 1 ELSE 1 + (CHOOSE i \in ends : \A e \in ends : e <= i)
        typed == {i \in from..j : Strip(rows[i].type_text) # <<>>}
    IN  IF typed = {} THEN <<>>
        ELSE Strip(rows[CHOOSE i \in typed : \A e \in typed : e <= i].type_text)

\* row j is a terminator, or has a digit qty while a type is set: the buffer of
\* promo fragments starts afresh after it
C21_StartsAfresh(rows, j) ==
    \/ C20_IsTerminator(rows[j])
    \/ IsDigitStr(Strip(rows[j].qty_text)) /\ C21_TypeAt(rows, j) # <<>>

\* the single-space join of the non-URL promo texts of the rows since the latest
\* fresh start before the last row, followed by the promo text of the last row
C21_PromoAt(rows) ==
    LET n      == Len(rows)
        starts == {i \in 1..(n - 1) : C21_StartsAfresh(rows, i)}
        from   == IF starts = {} THEN 1
                  ELSE 1 + (CHOOSE i \in starts : \A e \in starts : e <= i)
        frags  == SelectSeq([i \in 1..(n - from) |-> Strip(rows[from + i - 1].promo_text)],
                            LAMBDA f : f # <<>> /\ ~LooksLikeUrl(f))
        pr     == Strip(rows[n].promo_text)
    IN  Strip(JoinSpace(IF pr = <<>> THEN frags ELSE Append(frags, pr)))

\* what C21 says of one pass of the row loop
C21_Pass ==
    C20_AtRow =>
        LET scanned == C20_Scanned
            n       == Len(scanned)
            qt      == Strip(scanned[n].qty_text)
            type    == C21_TypeAt(scanned, n)
            promo   == C21_PromoAt(scanned)
            set     == Strip(scanned[n].type_text) # <<>> \/ C21_TypeAt(scanned, n - 1) # <<>>
        IN  /\ items' # items =>
                   /\ IsDigitStr(qt) /\ type # <<>> /\ promo # <<>>
                   /\ items' = Append(items, [type |-> type, promo |-> promo, qty |-> IntOf(qt)])
            /\ (IsDigitStr(qt) /\ type # <<>> /\ promo # <<>> /\ ~IntRaises(qt)) =>
                   Len(items') = Len(items) + 1
            /\ (IsDigitStr(qt) /\ set /\ ex_pc' = "rows") => promo_buf' = <<>>

\* C21: in every pass of the row loop of extract_items_from_pages, an item is
\* emitted only if the row's qty_text is all digits, a type is set and the joined
\* promo is non-empty (and is emitted then, unless int() refuses the digits); the
\* item's type is the most recent non-empty type_text since the last terminator,
\* over blank-type rows and over the pages of the call, and its promo is the
\* single-space join of the non-URL promo fragments since the previous row that
\* emitted or terminated, followed by the row's own promo_text; and promo_buf is
\* empty after every pass on a row with a digit qty and a set last_type.
C21_EmissionRule == [][C21_Pass]_vars

\* a call over two pages has emitted one item whose type comes from a row of the
\* first page and whose promo joins a fragment of the first page with the promo of
\* the blank-type row of the second page
C21_Witness ==
    /\ ex_pc = "done"
    /\ Len(ex_pages) = 2
    /\ doc[ex_pages[1] + 1].rows = <<RowMinus, RowFrag>>
    /\ doc[ex_pages[2] + 1].rows = <<RowCont>>
    /\ items = <<Item(Str_Banner_Sign, Str_Widget_Promo, 12)>>

-----------------------------------------------------------------------------
(* C22: the store-id -> kit-name lookup *)

\* the i-th store of the scan is a member of the kit: the scan appended it to the
\* store list of the kit's signature
C22_Member(i, kit) ==
    /\ gk_placed[i] # 0
    /\ combos[gk_placed[i]].key = C18_KitSig(kit)

\* C22: when group_wobbler_kits returns, kit_by_store_id maps the store_id of a
\* store to the name of a kit exactly when the store is a member of that kit:
\* a store in no returned kit has no entry, and a store in a kit has that kit's
\* name, also when stores share a name and class.
C22_LookupExact ==
    gk_pc = "done" =>
        \A i \in 1..Len(gk_stores) :
           \A k \in 1..Len(kits) :
              (/\ gk_stores[i].store_id \in DOMAIN kit_by_store_id
               /\ kit_by_store_id[gk_stores[i].store_id] = kits[k].kit_name)
              <=> C22_Member(i, kits[k])

-----------------------------------------------------------------------------
(* C23: the output groups partition the stores that have items *)

\* the section page that governs position p of the output: the last one before p
C23_SectionOf(p) ==
    LET secs == {q \in 1..p : out[q].kind = "section"}
    IN  out[CHOOSE q \in secs : \A r \in secs : r <= q]

\* the positions of the output that hold the copy of the first page of the store
C23_CopiesOf(s) ==
    {p \in 1..Len(out) : out[p].kind = "copy" /\ out[p].page = s.pages[1]}

\* the stores rendered in the group
C23_RenderedIn(group, label) ==
    {i \in 1..Len(stores) :
        \E p \in C23_CopiesOf(stores[i]) :
           C23_SectionOf(p).group = group /\ C23_SectionOf(p).label = label}

\* the sum of the sizes of the special-signage groups from the k-th label on
RECURSIVE C23_SpecialTotal(_)
C23_SpecialTotal(k) ==
    IF k > Len(SPECIAL_SIGNAGE_LABEL_ORDER) THEN 0
    ELSE Len(box_special[SPECIAL_SIGNAGE_LABEL_ORDER[k]]) + C23_SpecialTotal(k + 1)

\* C23: once the output is built, every store with an item has the copy of its
\* first page at exactly one position of the output, under the section of one
\* group; a store with no item has none; the number of stores rendered in each
\* group is the count reported for it; envelope-fit count + box total is the number
\* of stores with items, and box total is the sum of the special-signage group
\* sizes + the general box size.
C23_Partition ==
    (pr_pc \in {"save", "end"} /\ out # <<>>) =>
        /\ \A i \in 1..Len(stores) :
               Cardinality(C23_CopiesOf(stores[i])) = IF stores[i].items # <<>> THEN 1 ELSE 0
        /\ Cardinality(C23_RenderedIn("envelope", <<>>)) = Len(fits)
        /\ Cardinality(C23_RenderedIn("general", <<>>)) = Len(box_general)
        /\ \A k \in 1..Len(SPECIAL_SIGNAGE_LABEL_ORDER) :
               Cardinality(C23_RenderedIn("special", SPECIAL_SIGNAGE_LABEL_ORDER[k]))
                  = Len(box_special[SPECIAL_SIGNAGE_LABEL_ORDER[k]])
        /\ Len(fits) + Len(not_fits)
              = Cardinality({i \in 1..Len(stores) : stores[i].items # <<>>})
        /\ Len(not_fits) = C23_SpecialTotal(1) + Len(box_general)

\* a run has rendered one store in each of the envelope group, a special-signage
\* group and the general box group
C23_Witness ==
    /\ pr_pc = "end" /\ saved
    /\ Len(fits) = 1 /\ Len(box_general) = 1 /\ C23_SpecialTotal(1) = 1
    /\ C23_RenderedIn("envelope", <<>>) # {}
    /\ C23_RenderedIn("general", <<>>) # {}
    /\ C23_RenderedIn("special", Str_Banner_Sign) # {}

-----------------------------------------------------------------------------
(* C24: wrapped text stays within max_width *)

\* C24: every line draw_wrapped_text draws has measured width <= max_width; a
\* single word wider than max_width is drawn ellipsis-trimmed so that it fits.
C24_NoOverflow ==
    \A k \in 1..Len(wr_drawn) : TextLength(wr_drawn[k].text) <= wr_max

=============================================================================
